---------------------------- MODULE Spec2Model ----------------------------
(***************************************************************************)
(* Verus-Commons: the data aggregation and featured-selection pipeline.    *)
(*                                                                         *)
(* lib/projects.ts (getAllProjects, getProjectBySlug, getFeaturedProjects, *)
(* seededRandom, seededShuffle, getDailySeed) and lib/github.ts            *)
(* (parseGitHubUrl, fetchGitHubData) as a state machine.  The store, the   *)
(* image folders, the clock and the remote API are the environment.        *)
(*                                                                         *)
(* Text is a sequence of tokens; "" and an absent optional field are both  *)
(* the empty sequence (both are falsy in the code).  A 32-bit word is a    *)
(* pair <<hi, lo>> of 16-bit halves, so that all arithmetic stays within   *)
(* TLC's integers while keeping the wraparound of the code.                *)
(***************************************************************************)
EXTENDS Integers, Sequences, FiniteSets, TLC

(***************************************************************************)
(* 32-bit arithmetic (JavaScript ToInt32 / ToUint32, Math.imul, ^, |, >>>) *)
(***************************************************************************)
H16 == 256 * 256

\* 2^n for n in 0..16
Pow2(n) ==
  <<1, 2, 4, 8, 16, 32, 64, 128, 256, 512, 1024, 2048, 4096, 8192, 16384,
    32768, 65536>>[n + 1]

\* bit i of a natural
Bit(a, i) == (a \div Pow2(i)) % 2

\* exclusive or / or of bit i of a and b, in place
XorBit(a, b, i) == IF Bit(a, i) = Bit(b, i) THEN 0 ELSE Pow2(i)
OrBit(a, b, i) == IF Bit(a, i) = 1 \/ Bit(b, i) = 1 THEN Pow2(i) ELSE 0

\* bitwise exclusive or of two 16-bit naturals
Xor16(a, b) ==
  (((XorBit(a, b, 0) + XorBit(a, b, 1)) + (XorBit(a, b, 2) + XorBit(a, b, 3)))
   + ((XorBit(a, b, 4) + XorBit(a, b, 5)) + (XorBit(a, b, 6) + XorBit(a, b, 7))))
  + (((XorBit(a, b, 8) + XorBit(a, b, 9)) + (XorBit(a, b, 10) + XorBit(a, b, 11)))
     + ((XorBit(a, b, 12) + XorBit(a, b, 13)) + (XorBit(a, b, 14) + XorBit(a, b, 15))))

\* bitwise or of two 16-bit naturals
Or16(a, b) ==
  (((OrBit(a, b, 0) + OrBit(a, b, 1)) + (OrBit(a, b, 2) + OrBit(a, b, 3)))
   + ((OrBit(a, b, 4) + OrBit(a, b, 5)) + (OrBit(a, b, 6) + OrBit(a, b, 7))))
  + (((OrBit(a, b, 8) + OrBit(a, b, 9)) + (OrBit(a, b, 10) + OrBit(a, b, 11)))
     + ((OrBit(a, b, 12) + OrBit(a, b, 13)) + (OrBit(a, b, 14) + OrBit(a, b, 15))))

\* the value of e, with v evaluated first (the order of evaluation only)
After(v, e) == IF v = v THEN e ELSE e

Word(hi, lo) == <<hi, lo>>
Zero32 == Word(0, 0)

WXor(a, b) == Word(Xor16(a[1], b[1]), Xor16(a[2], b[2]))

\* t | k for a constant k < 2^16
WOrSmall(a, k) == Word(a[1], Or16(a[2], k))

\* (a + b) mod 2^32
WAdd(a, b) ==
  LET lo == a[2] + b[2]
  IN  Word((a[1] + b[1] + (lo \div H16)) % H16, lo % H16)

\* (a + k) mod 2^32 for a small natural k
WAddSmall(a, k) == WAdd(a, Word(0, k))

\* (-a) mod 2^32
WNeg(a) == WAdd(Word(H16 - 1 - a[1], H16 - 1 - a[2]), Word(0, 1))

WSub(a, b) == WAdd(a, WNeg(b))

\* a >>> n, 0 < n < 16
WShr(a, n) ==
  Word(a[1] \div Pow2(n), (a[2] \div Pow2(n)) + (a[1] % Pow2(n)) * Pow2(16 - n))

\* a << n, 0 < n < 16, truncated to 32 bits
WShl(a, n) ==
  Word(((a[1] * Pow2(n)) + (a[2] \div Pow2(16 - n))) % H16, (a[2] * Pow2(n)) % H16)

\* the low 16 bits of x * y, for 16-bit x and y
Mul16Lo(x, y) == (((x % 256) * y) + ((((x \div 256) * y) % 256) * 256)) % H16

\* the full product of 16-bit x and y as a word
Mul16(x, y) ==
  LET p0 == (x % 256) * y
      p1 == (x \div 256) * y
      s  == p0 + ((p1 % 256) * 256)
  IN  Word(((s \div H16) + (p1 \div 256)) % H16, s % H16)

\* Math.imul(a, b): the low 32 bits of a * b
Imul(a, b) ==
  WAdd(Mul16(a[2], b[2]), Word((Mul16Lo(a[1], b[2]) + Mul16Lo(a[2], b[1])) % H16, 0))

\* the sign bit of the word read as an int32
IsNeg32(a) == a[1] >= 32768

\* Math.abs of the word read as an int32 (2^31 for -2^31)
WAbs(a) == IF IsNeg32(a) THEN WNeg(a) ELSE a

\* floor((u / 2^32) * n) for a natural n < 2^15: exact in the code's doubles
ScaleFloor(u, n) == ((u[1] * n) + ((u[2] * n) \div H16)) \div H16


(***************************************************************************)
(* The clock: a UTC calendar date and a slot within the day.  month is     *)
(* zero-based, as Date.getUTCMonth() returns it.                           *)
(***************************************************************************)
SlotsPerDay == 2

IsLeap(y) == (y % 4) = 0 /\ ((y % 100) # 0 \/ (y % 400) = 0)

DaysInMonth(y, m) ==
  IF m = 1 THEN (IF IsLeap(y) THEN 29 ELSE 28)
  ELSE IF m \in {3, 5, 8, 10} THEN 30 ELSE 31

Instant(y, m, d, s) == [year |-> y, month |-> m, day |-> d, slot |-> s]

UTCDate(t) == <<t.year, t.month, t.day>>

NextDay(t) ==
  IF t.day < DaysInMonth(t.year, t.month)
    THEN Instant(t.year, t.month, t.day + 1, 0)
  ELSE IF t.month < 11 THEN Instant(t.year, t.month + 1, 1, 0)
  ELSE Instant(t.year + 1, 0, 1, 0)

\* the next instant of the clock
Later(t) ==
  IF t.slot + 1 < SlotsPerDay THEN [t EXCEPT !.slot = t.slot + 1] ELSE NextDay(t)

(***************************************************************************)
(* getDailySeed                                                            *)
(***************************************************************************)
RECURSIVE Digits(_)
\* the char codes of the decimal numeral of a natural, as String(n) gives
Digits(n) == IF n < 10 THEN <<48 + n>> ELSE Digits(n \div 10) \o <<48 + (n % 10)>>

Dash == <<45>>

\* a date string with the month counted from 1 and two digits each
PaddedString(t) ==
  Digits(t.year) \o Dash
    \o <<48 + ((t.month + 1) \div 10), 48 + ((t.month + 1) % 10)>> \o Dash
    \o <<48 + (t.day \div 10), 48 + (t.day % 10)>>

\* a date string without the day of the month
MonthString(t) == Digits(t.year) \o Dash \o Digits(t.month)

\* `${now.getUTCFullYear()}-${now.getUTCMonth()}-${now.getUTCDate()}`
DateString(t) == Digits(t.year) \o Dash \o Digits(t.month) \o Dash \o Digits(t.day)

\* hash = ((hash << 5) - hash) + char; hash = hash & hash
HashStep(hash, char) == WAddSmall(WSub(WShl(hash, 5), hash), char)

RECURSIVE HashFrom(_, _, _)
HashFrom(hash, str, i) ==
  IF i > Len(str) THEN hash
  ELSE LET next == HashStep(hash, str[i])
       IN  After(next, HashFrom(next, str, i + 1))

StringHash(str) == HashFrom(Zero32, str, 1)

getDailySeed(t) == WAbs(StringHash(DateString(t)))

(***************************************************************************)
(* seededRandom (mulberry32) and seededShuffle                             *)
(***************************************************************************)
Increment == Word(27947, 31221)      \* 0x6D2B79F5

\* one call of the generator on its captured state: the new state and the
\* unsigned 32-bit value that the code divides by 2^32
seededRandom(state) ==
  LET s1 == WAdd(state, Increment)
      t1 == Imul(WXor(s1, WShr(s1, 15)), WOrSmall(s1, 1))
      t2 == WXor(t1, WAdd(t1, Imul(WXor(t1, WShr(t1, 7)), WOrSmall(t1, 61))))
  IN  After(s1, After(t1, After(t2, [state |-> s1, value |-> WXor(t2, WShr(t2, 14))])))

\* an assignment of result[j] to result[i] alone
SwapCopy(arr, i, j) == [arr EXCEPT ![i] = arr[j]]

\* [result[i], result[j]] = [result[j], result[i]], on one-based positions
Swap(arr, i, j) == [arr EXCEPT ![i] = arr[j], ![j] = arr[i]]

\* one iteration of the loop at zero-based index i: the value drawn and j
Draw(st, i) ==
  LET r == seededRandom(st)
  IN  [i |-> i, value |-> r.value, j |-> ScaleFloor(r.value, i + 1), state |-> r.state]

RECURSIVE ShuffleFrom(_, _, _)
\* the body of the loop with the draw d made, and the iterations after it
ShuffleStep(result, d) ==
  LET swapped == Swap(result, d.i + 1, d.j + 1)
  IN  After(swapped, ShuffleFrom(swapped, d.state, d.i - 1))

\* the loop of seededShuffle at zero-based index i with generator state st
ShuffleFrom(result, st, i) ==
  IF i <= 0 THEN result ELSE ShuffleStep(result, Draw(st, i))

RECURSIVE DrawsFrom(_, _)
\* the draw d and the draws of the iterations after it
DrawsAfter(d) ==
  After(d, <<[i |-> d.i, value |-> d.value, j |-> d.j]>> \o DrawsFrom(d.state, d.i - 1))

\* the draws of the loop from zero-based index i down to 1, in order
DrawsFrom(st, i) == IF i <= 0 THEN <<>> ELSE DrawsAfter(Draw(st, i))

\* a shuffle of projects whose seed takes in the stars of the first project
shuffleByStars(array, seed) ==
  [array |-> array,
   result |-> ShuffleFrom(array,
                          IF Len(array) > 0 /\ ~array[1].github.null
                            THEN WAddSmall(seed, array[1].github.stars + 1) ELSE seed,
                          Len(array) - 1)]

\* a shuffle that works on the caller's array itself
ShuffleInPlace(array, seed) ==
  LET result == ShuffleFrom(array, seed, Len(array) - 1)
  IN  [array |-> result, result |-> result]

\* one call of seededShuffle: `const result = [...array]` is shuffled and
\* returned; `array` is the caller's array as the call leaves it
ShuffleCall(array, seed) ==
  [array |-> array, result |-> ShuffleFrom(array, seed, Len(array) - 1)]

seededShuffle(array, seed) == ShuffleCall(array, seed).result

(***************************************************************************)
(* parseGitHubUrl: url.match(/github\.com\/([^/]+)\/([^/]+)/)              *)
(***************************************************************************)
Slash == "/"

\* the tokens whose text ends with "github.com" (the pattern is unanchored)
GitHubHosts == {"github.com", "www.github.com", "notgithub.com"}

RECURSIVE RunEnd(_, _)
\* the index after the longest run of non-slash tokens from k on: ([^/]+)
RunEnd(url, k) ==
  IF k > Len(url) \/ url[k] = Slash THEN k ELSE RunEnd(url, k + 1)

\* the pattern matches with "github.com" ending at token k
MatchAt(url, k) ==
  /\ url[k] \in GitHubHosts
  /\ k + 1 <= Len(url)
  /\ url[k + 1] = Slash
  /\ LET o == RunEnd(url, k + 2)
     IN  /\ o > k + 2
         /\ o <= Len(url)
         /\ RunEnd(url, o + 1) > o + 1

\* match[2].replace(/\.git$/, '')
StripGit(seg) ==
  IF seg[Len(seg)] = ".git" THEN SubSeq(seg, 1, Len(seg) - 1) ELSE seg

NoMatch == [ok |-> FALSE, owner |-> <<>>, repo |-> <<>>]

parseGitHubUrl(url) ==
  LET ks == {k \in 1..Len(url) : MatchAt(url, k)}
  IN  IF ks = {} THEN NoMatch
      ELSE LET k == CHOOSE x \in ks : \A y \in ks : x <= y
               o == RunEnd(url, k + 2)
           IN  [ok    |-> TRUE,
                owner |-> SubSeq(url, k + 2, o - 1),
                repo  |-> StripGit(SubSeq(url, o + 1, RunEnd(url, o + 1) - 1))]

(***************************************************************************)
(* Responses of the remote API and fetchGitHubData                         *)
(***************************************************************************)
Pending == [kind |-> "pending"]
NetErr == [kind |-> "neterr"]
\* a response: its status, its body, and its rate-limit headers (low: fewer
\* than 10 requests remain; reset: X-RateLimit-Reset is a number or is not)
Http(status, body) ==
  [kind |-> "http", status |-> status, body |-> body, low |-> FALSE, reset |-> "numeric"]

\* the response with few requests remaining and a reset header that is no number
BadReset(res) == [res EXCEPT !.low = TRUE, !.reset = "garbage"]

Unread == [json |-> "unread"]
Malformed == [json |-> "malformed"]
\* -1 stands for a count that is absent from the body
RepoJson(stars, forks, pushed, license) ==
  [json |-> "object", stargazers_count |-> stars, forks_count |-> forks,
   pushed_at |-> pushed, license |-> license]
LangJson(keys) == [json |-> "object", keys |-> keys]

ErrorStatuses == {403, 404}
\* the body of an error response: JSON without the fields of a repository
ErrorJson == RepoJson(-1, -1, <<>>, <<>>)
GoodRepoBody == RepoJson(3, 1, <<"2024-01-15">>, <<"MIT">>)
RepoBodies == {Malformed, GoodRepoBody, ErrorJson}
LangBodies == {Malformed, LangJson(<<"TypeScript", "CSS">>)}

GoodRepo == Http(200, GoodRepoBody)

RepoOutcomes ==
  {NetErr} \cup {Http(s, ErrorJson) : s \in ErrorStatuses} \cup {Http(200, b) : b \in RepoBodies}
    \cup {BadReset(GoodRepo), BadReset(Http(403, ErrorJson))}
LangOutcomes ==
  {NetErr} \cup {Http(500, Unread)} \cup {Http(200, b) : b \in LangBodies}

\* Response.ok
Ok(res) == res.kind = "http" /\ res.status >= 200 /\ res.status <= 299

Rejected(res) == res.kind = "neterr"

\* checkRateLimit throws: new Date(NaN).toISOString() once it reports a low
\* remainder or a rate-limit status
checkRateLimitThrows(res) ==
  res.reset = "garbage" /\ (res.low \/ res.status \in {403, 429})

\* await res.json() throws
JsonThrows(res) == res.body.json # "object"

NullData == [null |-> TRUE]

\* x || 0 on a count
OrZero(x) == IF x = -1 THEN 0 ELSE x

GitHubData(repoData, languagesData) ==
  [null |-> FALSE,
   stars |-> OrZero(repoData.stargazers_count),
   forks |-> OrZero(repoData.forks_count),
   lastCommit |-> repoData.pushed_at,
   license |-> repoData.license,
   languages |-> languagesData]

\* Promise.all([fetch(repo), fetch(languages)]) has settled
AllSettled(repoRes, languagesRes) ==
  \/ Rejected(repoRes)
  \/ Rejected(languagesRes)
  \/ (repoRes.kind = "http" /\ languagesRes.kind = "http")

Throws == [threw |-> TRUE, value |-> NullData]
Returns(v) == [threw |-> FALSE, value |-> v]

\* a try block that gives up when the languages request did not succeed
TryBlockStrict(repoRes, languagesRes) ==
  IF Rejected(repoRes) \/ Rejected(languagesRes) THEN Throws
  ELSE IF checkRateLimitThrows(repoRes) THEN Throws
  ELSE IF ~Ok(repoRes) \/ ~Ok(languagesRes) THEN Returns(NullData)
  ELSE IF JsonThrows(repoRes) \/ JsonThrows(languagesRes) THEN Throws
  ELSE Returns(GitHubData(repoRes.body, languagesRes.body.keys))

\* a try block without the check of repoRes.ok
TryBlockNoOkCheck(repoRes, languagesRes) ==
  IF Rejected(repoRes) \/ Rejected(languagesRes) THEN Throws
  ELSE IF checkRateLimitThrows(repoRes) THEN Throws
  ELSE IF JsonThrows(repoRes) THEN Throws
  ELSE IF Ok(languagesRes) /\ JsonThrows(languagesRes) THEN Throws
  ELSE Returns(GitHubData(repoRes.body,
                          IF Ok(languagesRes) THEN languagesRes.body.keys ELSE <<>>))

\* a try block that goes on without languages when their request was lost
TryBlockLenient(repoRes, languagesRes) ==
  IF repoRes.kind # "http" THEN Throws
  ELSE IF checkRateLimitThrows(repoRes) THEN Throws
  ELSE IF ~Ok(repoRes) THEN Returns(NullData)
  ELSE IF JsonThrows(repoRes) THEN Throws
  ELSE IF Ok(languagesRes) /\ JsonThrows(languagesRes) THEN Throws
  ELSE Returns(GitHubData(repoRes.body,
                          IF Ok(languagesRes) THEN languagesRes.body.keys ELSE <<>>))

\* the try block of fetchGitHubData once Promise.all has settled
TryBlock(repoRes, languagesRes) ==
  IF Rejected(repoRes) \/ Rejected(languagesRes) THEN Throws
  ELSE IF checkRateLimitThrows(repoRes) THEN Throws
  ELSE IF ~Ok(repoRes) THEN Returns(NullData)
  ELSE IF JsonThrows(repoRes) THEN Throws
  ELSE IF Ok(languagesRes) /\ JsonThrows(languagesRes) THEN Throws
  ELSE Returns(GitHubData(repoRes.body,
                          IF Ok(languagesRes) THEN languagesRes.body.keys ELSE <<>>))

\* no catch clause: what the try block throws leaves fetchGitHubData
NoCatch(outcome) == outcome

\* catch (error) { console.error(...); return null; }
Catch(outcome) == IF outcome.threw THEN Returns(NullData) ELSE outcome

\* how fetchGitHubData settles for a URL that parsed
FetchResult(repoRes, languagesRes) == Catch(TryBlock(repoRes, languagesRes))

(***************************************************************************)
(* The environment: the record store (data/projects), the image folders    *)
(* (public/images/projects/{slug}) and the clock.                          *)
(***************************************************************************)
VARIABLES
  dirExists,   \* fs.existsSync(PROJECTS_DIR)
  listing,     \* fs.readdirSync(PROJECTS_DIR): file names in listing order
  content,     \* file name -> what readFileSync + parse give
  images,      \* slug -> the files of its image folder (no entry: no folder)
  now,         \* the clock
  workers,     \* the request handlers that run
  pass,        \* handler -> its call of getAllProjects / getFeaturedProjects
  seen,        \* the completed featured selections: date, eligible, output
  seedUse,     \* the latest call of getDailySeed: its date and its value
  runsLeft,    \* calls that may still start
  ticks        \* clock steps so far

vars ==
  <<dirExists, listing, content, images, now, workers, pass, seen, seedUse,
    runsLeft, ticks>>

envVars == <<dirExists, listing, content, images, workers>>

MaxFiles == 2
MaxFeatured == 4
MaxRuns == 2
MaxTicks == 1
MaxWatch == 800
NumWorkers == 2

Workers == 1..NumWorkers

\* readFileSync or parse throws
Unreadable == [readable |-> FALSE]

ProjectYAML(name, slug, category, repo, maintainer) ==
  [readable |-> TRUE, name |-> name, slug |-> slug, category |-> category,
   repo |-> repo, maintainer |-> maintainer]

CATEGORIES == {"wallet", "app", "dashboard", "tool", "library", "other"}

\* f.endsWith('.yaml')
IsYamlFile(f) == f[Len(f)] = ".yaml"

\* f.endsWith('.yaml') && !f.startsWith('_')
IsRecordFile(f) == f[Len(f)] = ".yaml" /\ f[1] # "_"

UrlAlice == <<"https:", "/", "/", "github.com", "/", "alice", "/", "wallet", ".git">>
UrlBob == <<"https:", "/", "/", "www.github.com", "/", "bob", "/", "dash", "/", "tree">>
UrlGitlab == <<"https:", "/", "/", "gitlab.com", "/", "carol", "/", "tool">>
UrlOnlyOwner == <<"https:", "/", "/", "github.com", "/", "onlyowner">>

FTemplate == <<"_", "template", ".yaml">>
FNotes == <<"notes", ".txt">>
FBroken == <<"broken", ".yaml">>
FA == <<"a", ".yaml">>
FB == <<"b", ".yaml">>
FC == <<"c", ".yaml">>
FD == <<"d", ".yaml">>
FE == <<"e", ".yaml">>
FF == <<"f", ".yaml">>
FG == <<"g", ".yaml">>

RecTemplate == ProjectYAML(<<"Your", "Project">>, <<"your-project">>, "app", UrlAlice, <<>>)
RecA == ProjectYAML(<<"A">>, <<"a">>, "app", UrlAlice, <<>>)
RecB == ProjectYAML(<<"B">>, <<"b">>, "wallet", UrlBob, <<"Bob", "B.">>)
RecC(category) == ProjectYAML(<<"C">>, <<"c">>, category, UrlGitlab, <<>>)
RecD == ProjectYAML(<<"D">>, <<"d">>, "dashboard", UrlOnlyOwner, <<"Dana">>)
RecE == ProjectYAML(<<"E">>, <<"e">>, "app", UrlGitlab, <<>>)
RecF == ProjectYAML(<<"F">>, <<"f">>, "wallet", UrlGitlab, <<"Fay">>)
RecG == ProjectYAML(<<"G">>, <<"g">>, "app", UrlOnlyOwner, <<>>)

\* the contents a file of the store may have
Choices(f) ==
  IF f = FTemplate THEN {RecTemplate}
  ELSE IF f = FNotes THEN {Unreadable}
  ELSE IF f = FBroken THEN {Unreadable}
  ELSE IF f = FA THEN {RecA}
  ELSE IF f = FB THEN {RecB}
  ELSE IF f = FC THEN {RecC("tool"), RecC("app")}
  ELSE IF f = FD THEN {RecD}
  ELSE IF f = FE THEN {RecE}
  ELSE IF f = FF THEN {RecF}
  ELSE {RecG}

\* the image folders: e has a folder without a featured image, g has none
ImageFolders ==
  (<<"your-project">> :> {"featured.png"})
  @@ (<<"a">> :> {"featured.png", "logo.png", "screenshot1.png", "screenshot3.jpg"})
  @@ (<<"b">> :> {"featured.jpg", "logo.jpg"})
  @@ (<<"c">> :> {"featured.png"})
  @@ (<<"d">> :> {"featured.png", "featured.jpg"})
  @@ (<<"e">> :> {"logo.png"})
  @@ (<<"f">> :> {"featured.jpg"})

\* the sequences of distinct elements of S of length at most n
RECURSIVE Listings(_, _)
Listings(S, n) ==
  IF n = 0 THEN {<<>>}
  ELSE LET shorter == Listings(S, n - 1)
       IN  shorter \cup {Append(l, f) : l \in shorter, f \in S} 

Distinct(l) == \A i, j \in 1..Len(l) : i # j => l[i] # l[j]

Range(f) == {f[i] : i \in DOMAIN f}

(***************************************************************************)
(* Image probes and the merge of one record                                *)
(***************************************************************************)
HasFolder(slug) == slug \in DOMAIN images

Exists(slug, file) == HasFolder(slug) /\ file \in images[slug]

getProjectLogo(slug) ==
  IF ~HasFolder(slug) THEN <<>>
  ELSE IF Exists(slug, "logo.png") THEN <<"logo.png">>
  ELSE IF Exists(slug, "logo.jpg") THEN <<"logo.jpg">>
  ELSE <<>>

PngShots == <<"screenshot1.png", "screenshot2.png", "screenshot3.png",
              "screenshot4.png", "screenshot5.png", "screenshot6.png">>
JpgShots == <<"screenshot1.jpg", "screenshot2.jpg", "screenshot3.jpg",
              "screenshot4.jpg", "screenshot5.jpg", "screenshot6.jpg">>

RECURSIVE ShotsFrom(_, _)
ShotsFrom(slug, i) ==
  IF i > Len(PngShots) THEN <<>>
  ELSE (IF Exists(slug, PngShots[i]) THEN <<PngShots[i]>>
        ELSE IF Exists(slug, JpgShots[i]) THEN <<JpgShots[i]>>
        ELSE <<>>) \o ShotsFrom(slug, i + 1)

getProjectScreenshots(slug) == IF ~HasFolder(slug) THEN <<>> ELSE ShotsFrom(slug, 1)

hasFeaturedImage(slug) ==
  HasFolder(slug) /\ (Exists(slug, "featured.png") \/ Exists(slug, "featured.jpg"))

\* yaml.maintainer || 'Unknown'
MaintainerNoOwner(yaml) ==
  IF yaml.maintainer # <<>> THEN yaml.maintainer ELSE <<"Unknown">>

\* yaml.maintainer || parsedRepo?.owner || 'Unknown'
Maintainer(yaml) ==
  LET parsedRepo == parseGitHubUrl(yaml.repo)
  IN  IF yaml.maintainer # <<>> THEN yaml.maintainer
      ELSE IF parsedRepo.ok /\ parsedRepo.owner # <<>> THEN parsedRepo.owner
      ELSE <<"Unknown">>

\* { ...yaml, maintainer, logo, screenshots, github }; the images are probed
\* under yaml.slug by getAllProjects and under the argument by getProjectBySlug
Project(yaml, imageSlug, github) ==
  [name |-> yaml.name, slug |-> yaml.slug, category |-> yaml.category,
   repo |-> yaml.repo, maintainer |-> Maintainer(yaml),
   logo |-> getProjectLogo(imageSlug),
   screenshots |-> getProjectScreenshots(imageSlug),
   github |-> github]

\* the place of a callback that has not returned a project
NoProject ==
  [name |-> <<>>, slug |-> <<>>, category |-> "undefined", repo |-> <<>>,
   maintainer |-> <<>>, logo |-> <<>>, screenshots |-> <<>>, github |-> NullData]

(***************************************************************************)
(* getFeaturedProjects                                                     *)
(***************************************************************************)
FEATURED_ELIGIBLE_CATEGORIES == {"app", "wallet", "dashboard"}

FeaturedCount == 3

\* eligibility by the featured image alone
IsEligibleByAsset(project) == hasFeaturedImage(project.slug)

IsEligible(project) ==
  project.category \in FEATURED_ELIGIBLE_CATEGORIES /\ hasFeaturedImage(project.slug)

Eligible(allProjects) == SelectSeq(allProjects, IsEligible)

\* shuffled.slice(0, 4)
Slice4(shuffled) ==
  SubSeq(shuffled, 1, IF Len(shuffled) < FeaturedCount + 1 THEN Len(shuffled)
                      ELSE FeaturedCount + 1)

\* shuffled.slice(0, 3)
Slice3(shuffled) ==
  SubSeq(shuffled, 1, IF Len(shuffled) < FeaturedCount THEN Len(shuffled) ELSE FeaturedCount)

\* getFeaturedProjects from `eligible` to its return: what it returns, and
\* allProjects and eligible as the call leaves them
Shuffled(allProjects, shuffle) ==
  [allProjects |-> allProjects, eligible |-> shuffle.array, result |-> Slice3(shuffle.result)]

FeaturedCall(allProjects, t) ==
  LET eligible == Eligible(allProjects)
  IN  IF Len(eligible) = 0
        THEN [allProjects |-> allProjects, eligible |-> eligible, result |-> <<>>]
      ELSE Shuffled(allProjects, ShuffleCall(eligible, getDailySeed(t)))

Featured(allProjects, t) == FeaturedCall(allProjects, t).result

Slugs(projects) == [i \in 1..Len(projects) |-> projects[i].slug]

(***************************************************************************)
(* One call of getAllProjects, alone or inside getFeaturedProjects.        *)
(* A task is the map callback of one record file:                          *)
(*   readfail   readFileSync or parse threw: the callback rejected         *)
(*   inflight   awaiting fetchGitHubData (two requests issued)             *)
(*   fetchfail  fetchGitHubData rejected: the callback rejected            *)
(*   done       the callback returned its project                          *)
(* requests counts the calls of fetch() the task has made.                 *)
(***************************************************************************)
NotIssued == [kind |-> "none"]

Task(file, yaml, imageSlug, state, repoRes, languagesRes, project, requests) ==
  [file |-> file, yaml |-> yaml, imageSlug |-> imageSlug, state |-> state,
   repoRes |-> repoRes, languagesRes |-> languagesRes, project |-> project,
   requests |-> requests]

\* the callback of files.map (the body of getProjectBySlug) up to its first
\* suspension, or to its end
StartTask(file, imageSlug) ==
  LET yaml == content[file]
  IN  IF ~yaml.readable
        THEN Task(file, yaml, <<>>, "readfail", NotIssued, NotIssued, NoProject, 0)
      ELSE LET slug == IF imageSlug = <<>> THEN yaml.slug ELSE imageSlug
           IN  IF ~parseGitHubUrl(yaml.repo).ok
                 THEN Task(file, yaml, slug, "done", NotIssued, NotIssued,
                           Project(yaml, slug, NullData), 0)
               ELSE Task(file, yaml, slug, "inflight", Pending, Pending, NoProject, 2)

\* a fetch that asks for the summary once more after a rate-limit status
SettleTaskRetry(task) ==
  LET outcome == FetchResult(task.repoRes, task.languagesRes)
      throttled == task.repoRes.kind = "http" /\ task.repoRes.status \in {403, 429}
  IN  IF outcome.threw
        THEN [task EXCEPT !.state = "fetchfail"]
      ELSE [task EXCEPT !.state = "done",
                        !.project = Project(task.yaml, task.imageSlug, outcome.value),
                        !.requests = IF throttled THEN @ + 1 ELSE @]

\* a task once its fetchGitHubData has settled
SettleTask(task) ==
  LET outcome == FetchResult(task.repoRes, task.languagesRes)
  IN  IF outcome.threw
        THEN [task EXCEPT !.state = "fetchfail"]
      ELSE [task EXCEPT !.state = "done",
                        !.project = Project(task.yaml, task.imageSlug, outcome.value)]

NothingLeft == [allProjects |-> <<>>, eligible |-> <<>>]

\* during: the calls that were under way when this one began
\* left: the arrays getFeaturedProjects worked from, as it leaves them
IdlePass ==
  [pc |-> "idle", kind |-> "none", arg |-> <<>>, tasks |-> <<>>, completed |-> <<>>,
   projects |-> <<>>, result |-> <<>>, during |-> {}, left |-> NothingLeft]

\* getAllProjects, getFeaturedProjects, getProjectBySlug
Kinds == {"all", "featured"}

\* String.prototype.toLowerCase on the tokens of the names in use
LowerToken(t) ==
  CASE t = "Bob" -> "bob"
    [] t = "BOB" -> "bob"
    [] t = "B." -> "b."
    [] t = "Dana" -> "dana"
    [] t = "Fay" -> "fay"
    [] t = "Unknown" -> "unknown"
    [] t = "HTTPS:" -> "https:"
    [] t = "JavaScript:" -> "javascript:"
    [] t = "GitHub.com" -> "github.com"
    [] OTHER -> t

toLowerCase(name) == [i \in 1..Len(name) |-> LowerToken(name[i])]

\* getProjectsByMaintainer: the filter
ByMaintainer(allProjects, name) ==
  SelectSeq(allProjects, LAMBDA p : toLowerCase(p.maintainer) = toLowerCase(name))

\* b.github?.stars || 0
LibraryStars(project) == IF project.github.null THEN 0 ELSE project.github.stars

\* a sort that puts an element before those it compares equal to
InsertSortedBefore(sorted, project) ==
  LET k == Cardinality({i \in 1..Len(sorted) :
                          LibraryStars(project) - LibraryStars(sorted[i]) < 0})
  IN  SubSeq(sorted, 1, k) \o <<project>> \o SubSeq(sorted, k + 1, Len(sorted))

\* one more element in a sequence sorted by the comparator
\* (a, b) => stars(b) - stars(a): Array.prototype.sort is stable, the element
\* goes behind those that do not compare greater
InsertSorted(sorted, project) ==
  LET k == Cardinality({i \in 1..Len(sorted) :
                          LibraryStars(project) - LibraryStars(sorted[i]) <= 0})
  IN  SubSeq(sorted, 1, k) \o <<project>> \o SubSeq(sorted, k + 1, Len(sorted))

RECURSIVE SortUpTo(_, _)
SortUpTo(list, n) ==
  IF n = 0 THEN <<>> ELSE InsertSorted(SortUpTo(list, n - 1), list[n])

\* getLibraryProjects: filter (p.category === 'library' || p.category ===
\* 'tool') and sort
Library(allProjects) ==
  LET libraries == SelectSeq(allProjects, LAMBDA p : p.category \in {"library", "tool"})
  IN  SortUpTo(libraries, Len(libraries))

\* a merge that passes over the files that cannot be read
AllReadableDone(tasks) ==
  \A i \in 1..Len(tasks) : tasks[i].state \in {"done", "readfail"}

\* a merge that goes on as soon as one callback has returned
SomeDone(tasks) == \E i \in 1..Len(tasks) : tasks[i].state = "done"

\* Promise.all fulfils: every callback has returned
AllDone(tasks) == \A i \in 1..Len(tasks) : tasks[i].state = "done"

\* Promise.all rejects: some callback has rejected
SomeRejected(tasks) ==
  \E i \in 1..Len(tasks) : tasks[i].state \in {"readfail", "fetchfail"}

\* an array filled in the order in which the callbacks completed
CollectByCompletion(tasks, completed) ==
  [i \in 1..Len(tasks) |-> tasks[completed[i]].project]

\* an array of the projects whose metadata arrived
CollectFetched(tasks, completed) ==
  SelectSeq([i \in 1..Len(tasks) |-> tasks[i].project], LAMBDA p : ~p.github.null)

\* a merge that keeps the first collection built in a variable of the module
\* and hands it to every later call
CollectCached(tasks, completed) ==
  IF \E d \in Workers : pass[d].pc = "returned" /\ pass[d].kind \in {"all", "featured", "library"}
    THEN LET d == CHOOSE d \in Workers :
                    pass[d].pc = "returned" /\ pass[d].kind \in {"all", "featured", "library"}
         IN  pass[d].projects
  ELSE [i \in 1..Len(tasks) |-> tasks[i].project]

\* the array Promise.all fulfils with: the callbacks' values by input index,
\* whatever the order in which they completed
Collect(tasks, completed) == [i \in 1..Len(tasks) |-> tasks[i].project]

\* what the exported function returns once the merge has returned `projects`
\* (getProjectBySlug: the one project, or the empty sequence for null)
Result(kind, arg, projects, t) ==
  IF kind = "featured" THEN Featured(projects, t)
  ELSE IF kind = "library" THEN Library(projects)
  ELSE IF kind = "maintainer" THEN ByMaintainer(projects, arg)
  ELSE projects

\* the arrays of a call of getFeaturedProjects, without what it returned
Arrays(call) == [allProjects |-> call.allProjects, eligible |-> call.eligible]

\* allProjects and eligible once getFeaturedProjects has returned
Left(kind, projects, t) ==
  IF kind = "featured" THEN Arrays(FeaturedCall(projects, t)) ELSE NothingLeft

\* the stars of a project, -1 without metadata
StarsOf(project) == IF project.github.null THEN -1 ELSE project.github.stars

\* one run of getFeaturedProjects: its date, its eligible list, its output, the
\* stars fetched and the order in which the callbacks completed
Observation(projects, featured, completed, t) ==
  LET eligible == Eligible(projects)
  IN  [kind |-> "featured",
       date |-> UTCDate(t), eligible |-> Slugs(eligible), output |-> Slugs(featured),
       stars |-> [i \in 1..Len(eligible) |-> StarsOf(eligible[i])],
       order |-> completed]

\* one run of getProjectBySlug: its argument, the responses to its requests
\* and what it returned
LookupObservation(arg, tasks, result) ==
  [kind |-> "slug", arg |-> arg,
   responses |-> [i \in 1..Len(tasks) |-> <<tasks[i].repoRes, tasks[i].languagesRes>>],
   result |-> result]

SeedUse(t) == [date |-> UTCDate(t), seed |-> getDailySeed(t)]

NoSeedUse == [date |-> <<0, 0, 0>>, seed |-> Zero32]

\* the merge returns `projects`; getFeaturedProjects continues from it
\* a lookup whose screenshots array is shared between the calls and grows
FinishedShared(c, kind, arg, tasks, completed, projects) ==
  /\ LET earlier == IF Len(seen) > 0 /\ Len(seen[Len(seen)].result) > 0
                       THEN seen[Len(seen)].result[1].screenshots ELSE <<>>
         result == IF kind = "slug" /\ Len(projects) > 0
                     THEN <<[projects[1] EXCEPT !.screenshots = earlier \o @]>>
                   ELSE Result(kind, arg, projects, now)
     IN  /\ pass' = [pass EXCEPT ![c] =
               [pc |-> "returned", kind |-> kind, arg |-> arg, tasks |-> tasks,
                completed |-> completed, projects |-> projects, result |-> result,
                during |-> IF pass[c].pc = "fetching" THEN pass[c].during ELSE {},
                left |-> Left(kind, projects, now)]]
         /\ seen' = IF kind = "slug"
                      THEN Append(seen, LookupObservation(arg, tasks, result))
                    ELSE seen
  /\ seedUse' = seedUse

\* the call returns `result` and leaves the arrays `left`
Returned(c, kind, arg, tasks, completed, projects, result, left) ==
  /\ pass' = [pass EXCEPT ![c] =
        [pc |-> "returned", kind |-> kind, arg |-> arg, tasks |-> tasks,
         completed |-> completed, projects |-> projects, result |-> result,
         during |-> IF pass[c].pc = "fetching" THEN pass[c].during ELSE {},
         left |-> left]]
  /\ seen' = IF kind = "featured"
               THEN Append(seen, Observation(projects, result, completed, now))
             ELSE IF kind = "slug"
               THEN Append(seen, LookupObservation(arg, tasks, result))
             ELSE seen
  /\ seedUse' = IF kind = "featured" /\ Len(Eligible(projects)) > 0
                  THEN SeedUse(now) ELSE seedUse

Finished(c, kind, arg, tasks, completed, projects) ==
  Returned(c, kind, arg, tasks, completed, projects,
           Result(kind, arg, projects, now), Left(kind, projects, now))

\* the indexes of the tasks that are done, in increasing order
RECURSIVE DoneUpTo(_, _)
DoneUpTo(tasks, n) ==
  IF n = 0 THEN <<>>
  ELSE DoneUpTo(tasks, n - 1) \o (IF tasks[n].state = "done" THEN <<n>> ELSE <<>>)

Begun(c, kind, arg, tasks) ==
  /\ pass' = [pass EXCEPT ![c] =
       [pc |-> "fetching", kind |-> kind, arg |-> arg, tasks |-> tasks,
        completed |-> DoneUpTo(tasks, Len(tasks)), projects |-> <<>>, result |-> <<>>,
        during |-> {d \in Workers : pass[d].pc = "fetching"}, left |-> NothingLeft]]
  /\ UNCHANGED <<seen, seedUse>>

MayStart(c) ==
  /\ c \in workers
  /\ pass[c].pc \in {"idle", "returned", "rejected"}
  /\ runsLeft > 0

\* a read that fails when the directory is missing (readdirSync throws)
StartViewStrict(c, kind, arg) ==
  /\ MayStart(c)
  /\ runsLeft' = runsLeft - 1
  /\ IF ~dirExists
       THEN /\ pass' = [pass EXCEPT ![c] = [IdlePass EXCEPT !.pc = "rejected",
                                                            !.kind = kind, !.arg = arg]]
            /\ UNCHANGED <<seen, seedUse>>
     ELSE LET files == SelectSeq(listing, IsRecordFile)
          IN  Begun(c, kind, arg, [i \in 1..Len(files) |-> StartTask(files[i], <<>>)])
  /\ UNCHANGED <<envVars, now, ticks>>

\* a handler calls a view with its argument: the synchronous part of
\* getAllProjects, every callback of files.map up to its first await
StartView(c, kind, arg) ==
  /\ MayStart(c)
  /\ runsLeft' = runsLeft - 1
  /\ IF ~dirExists
       THEN Finished(c, kind, arg, <<>>, <<>>, <<>>)
     ELSE LET files == SelectSeq(listing, IsRecordFile)
          IN  Begun(c, kind, arg, [i \in 1..Len(files) |-> StartTask(files[i], <<>>)])
  /\ UNCHANGED <<envVars, now, ticks>>

\* a handler calls getAllProjects (kind "all"), getFeaturedProjects or
\* getLibraryProjects
Start(c, kind) == StartView(c, kind, <<>>)

\* a handler calls getProjectsByMaintainer(name)
StartMaintainer(c, name) == StartView(c, "maintainer", name)

\* fs.existsSync(path.join(PROJECTS_DIR, name))
FileExists(name) == dirExists /\ name \in Range(listing)

\* a handler calls getProjectBySlug(slug): up to its first await
Lookup(c, slug) ==
  /\ MayStart(c)
  /\ runsLeft' = runsLeft - 1
  /\ IF ~FileExists(slug \o <<".yaml">>)
       THEN Finished(c, "slug", slug, <<>>, <<>>, <<>>)
     ELSE Begun(c, "slug", slug, <<StartTask(slug \o <<".yaml">>, slug)>>)
  /\ UNCHANGED <<envVars, now, ticks>>

Awaiting(c, i) ==
  /\ c \in workers
  /\ pass[c].pc = "fetching"
  /\ i \in 1..Len(pass[c].tasks)
  /\ pass[c].tasks[i].state = "inflight"

\* a request of task i has settled: once Promise.all has settled with it,
\* fetchGitHubData continues to its end and the callback merges the project
Responded(c, i, task) ==
  /\ pass' = [pass EXCEPT
       ![c].tasks[i] =
          IF AllSettled(task.repoRes, task.languagesRes) THEN SettleTask(task) ELSE task,
       ![c].completed =
          IF AllSettled(task.repoRes, task.languagesRes) THEN Append(@, i) ELSE @]
  /\ UNCHANGED <<envVars, now, seen, seedUse, runsLeft, ticks>>

\* the repository-summary request of task i settles
RespondRepo(c, i, outcome) ==
  /\ Awaiting(c, i)
  /\ pass[c].tasks[i].repoRes = Pending
  /\ Responded(c, i, [pass[c].tasks[i] EXCEPT !.repoRes = outcome])

\* the languages request of task i settles
RespondLanguages(c, i, outcome) ==
  /\ Awaiting(c, i)
  /\ pass[c].tasks[i].languagesRes = Pending
  /\ Responded(c, i, [pass[c].tasks[i] EXCEPT !.languagesRes = outcome])

\* a call that gives up waiting and returns what it has
ReturnOnTimeout(c) ==
  /\ c \in workers
  /\ pass[c].pc = "fetching"
  /\ Finished(c, pass[c].kind, pass[c].arg, pass[c].tasks, pass[c].completed,
              Collect(pass[c].tasks, pass[c].completed))
  /\ UNCHANGED <<envVars, now, runsLeft, ticks>>

\* Promise.all fulfils and the call returns
Return(c) ==
  /\ c \in workers
  /\ pass[c].pc = "fetching"
  /\ AllDone(pass[c].tasks)
  /\ Finished(c, pass[c].kind, pass[c].arg, pass[c].tasks, pass[c].completed,
              Collect(pass[c].tasks, pass[c].completed))
  /\ UNCHANGED <<envVars, now, runsLeft, ticks>>

\* Promise.all rejects and the call rejects
Reject(c) ==
  /\ c \in workers
  /\ pass[c].pc = "fetching"
  /\ SomeRejected(pass[c].tasks)
  /\ pass' = [pass EXCEPT ![c].pc = "rejected"]
  /\ UNCHANGED <<envVars, now, seen, seedUse, runsLeft, ticks>>

\* time passes
Tick ==
  /\ ticks < MaxTicks
  /\ ticks' = ticks + 1
  /\ now' = Later(now)
  /\ UNCHANGED <<envVars, pass, seen, seedUse, runsLeft>>

\* time passes and a caller reads the daily seed at the new instant
Watch ==
  /\ ticks < MaxWatch
  /\ ticks' = ticks + 1
  /\ now' = Later(now)
  /\ seedUse' = SeedUse(now')
  /\ UNCHANGED <<envVars, pass, seen, runsLeft>>

(***************************************************************************)
(* lib/validation.ts: validateExternalUrl and validateGitHubUrl.           *)
(* A URL is a sequence of tokens: blanks, a scheme with its colon, "/",    *)
(* and pieces of a host or of a path segment (no dot segments, port,       *)
(* query or fragment among them).  <<>> is "", undefined or null.          *)
(***************************************************************************)
Space == " "

SchemeTokens ==
  {"https:", "http:", "HTTPS:", "ftp:", "javascript:", "JavaScript:", "data:",
   "vbscript:", "file:", "about:"}

ALLOWED_PROTOCOLS == {"https:", "http:"}

\* /^javascript:/i, /^data:/i, /^vbscript:/i, /^file:/i, /^about:/i
BLOCKED_PATTERNS == {"javascript:", "data:", "vbscript:", "file:", "about:"}

RECURSIVE TrimStart(_)
TrimStart(url) ==
  IF Len(url) > 0 /\ url[1] = Space THEN TrimStart(Tail(url)) ELSE url

RECURSIVE TrimEnd(_)
TrimEnd(url) ==
  IF Len(url) > 0 /\ url[Len(url)] = Space
    THEN TrimEnd(SubSeq(url, 1, Len(url) - 1)) ELSE url

\* url.trim()
Trim(url) == TrimEnd(TrimStart(url))

\* the patterns without their i flag
IsBlockedExact(trimmed) == trimmed[1] \in BLOCKED_PATTERNS

\* some pattern of BLOCKED_PATTERNS matches at the start of the text
IsBlocked(trimmed) == LowerToken(trimmed[1]) \in BLOCKED_PATTERNS

RECURSIVE SkipSlashes(_)
SkipSlashes(rest) ==
  IF Len(rest) > 0 /\ rest[1] = Slash THEN SkipSlashes(Tail(rest)) ELSE rest

RECURSIVE Segments(_)
\* pathname.split('/').filter(Boolean): the non-empty pieces between slashes
Segments(path) ==
  IF Len(path) = 0 THEN <<>>
  ELSE IF path[1] = Slash THEN Segments(Tail(path))
  ELSE LET e == RunEnd(path, 1)
       IN  <<SubSeq(path, 1, e - 1)>> \o Segments(SubSeq(path, e, Len(path)))

ParseFails == [ok |-> FALSE, protocol |-> "", hostname |-> <<>>, pathname |-> <<>>]

ParsedURL(protocol, hostname, pathname) ==
  [ok |-> TRUE, protocol |-> protocol, hostname |-> hostname,
   pathname |-> IF pathname = <<>> THEN <<Slash>> ELSE pathname]

\* new URL(text) without a base: a text with no scheme throws; after http:,
\* https: or ftp: any number of slashes precedes the host, which must not be
\* empty; scheme and host are lower-cased; after another scheme a host
\* follows "//" only, and may be empty
NewURL(text) ==
  IF Len(text) = 0 \/ text[1] \notin SchemeTokens THEN ParseFails
  ELSE LET protocol == LowerToken(text[1])
           rest == Tail(text)
       IN  IF protocol \in {"https:", "http:", "ftp:"}
             THEN LET authority == SkipSlashes(rest)
                      e == RunEnd(authority, 1)
                  IN  IF e = 1 THEN ParseFails
                      ELSE ParsedURL(protocol, toLowerCase(SubSeq(authority, 1, e - 1)),
                                     SubSeq(authority, e, Len(authority)))
           ELSE IF Len(rest) >= 2 /\ rest[1] = Slash /\ rest[2] = Slash
             THEN LET authority == SubSeq(rest, 3, Len(rest))
                      e == RunEnd(authority, 1)
                  IN  ParsedURL(protocol, toLowerCase(SubSeq(authority, 1, e - 1)),
                                SubSeq(authority, e, Len(authority)))
           ELSE ParsedURL(protocol, <<>>, rest)

\* what a validator returns: the text (ok) or null, and the test that decided
Verdict(ok, value, stage) == [ok |-> ok, value |-> value, stage |-> stage]

\* validateExternalUrl from `const parsed = new URL(trimmed)` on
ExternalRule(trimmed, parsed) ==
  IF ~parsed.ok THEN Verdict(FALSE, <<>>, "format")
  ELSE IF parsed.protocol \notin ALLOWED_PROTOCOLS THEN Verdict(FALSE, <<>>, "protocol")
  ELSE IF parsed.hostname = <<>> THEN Verdict(FALSE, <<>>, "hostname")
  ELSE Verdict(TRUE, trimmed, "accepted")

\* validateExternalUrl from `const trimmed = url.trim()` on
ExternalTrimmed(trimmed) ==
  IF trimmed = <<>> THEN Verdict(FALSE, <<>>, "blank")
  ELSE IF IsBlocked(trimmed) THEN Verdict(FALSE, <<>>, "blocked")
  ELSE ExternalRule(trimmed, NewURL(trimmed))

validateExternalUrl(url) ==
  IF url = <<>> THEN Verdict(FALSE, <<>>, "absent") ELSE ExternalTrimmed(Trim(url))

\* validateGitHubUrl from `const parsed = new URL(validated)` on, with the
\* least number of path parts
GitHubRule(validated, parsed, least) ==
  IF parsed.hostname \notin {<<"github.com">>, <<"www.github.com">>}
    THEN Verdict(FALSE, <<>>, "hostname")
  ELSE IF Len(Segments(parsed.pathname)) < least THEN Verdict(FALSE, <<>>, "path")
  ELSE Verdict(TRUE, validated, "accepted")

\* validateGitHubUrl once validateExternalUrl has answered
GitHubValidated(validated, least) ==
  IF ~validated.ok THEN Verdict(FALSE, <<>>, "unsafe")
  ELSE GitHubRule(validated.value, NewURL(validated.value), least)

\* a rule content with one path segment
validateGitHubUrlOwnerOnly(url) == GitHubValidated(validateExternalUrl(url), 1)

validateGitHubUrl(url) == GitHubValidated(validateExternalUrl(url), 2)

(***************************************************************************)
(* lib/validation.ts: ProjectYAMLSchema and validateProjectYAML.           *)
(* A value of the parsed YAML is undefined, a string (its text as tokens,  *)
(* its length in characters, whether slugPattern matches it) or an array.  *)
(***************************************************************************)
Undefined == [type |-> "undefined"]

Str(text, length, isSlug) ==
  [type |-> "string", text |-> text, length |-> length, isSlug |-> isSlug]

Arr(items) == [type |-> "array", items |-> items]

VerusFeatures ==
  {"VerusID", "Currencies", "DeFi", "Cross-chain", "Zero-knowledge privacy",
   "Marketplace", "Data", "PBaaS-chain", "Staking", "Mining"}

Issue(path, message) == [path |-> path, message |-> message]

\* the issue of a value of the wrong type, "Required" for undefined
TypeIssue(path, v) ==
  <<Issue(path, IF v.type = "undefined" THEN "Required" ELSE "Expected another type")>>

Check(kind, bound, message) == [kind |-> kind, bound |-> bound, message |-> message]

Fails(check, v) ==
  CASE check.kind = "min" -> v.length < check.bound
    [] check.kind = "max" -> v.length > check.bound
    [] check.kind = "regex" -> ~v.isSlug
    [] check.kind = "safeUrl" -> ~validateExternalUrl(v.text).ok
    [] check.kind = "gitHubUrl" -> ~validateGitHubUrl(v.text).ok

\* z.string() with its checks and refinements: a value of another type gives
\* one issue, a string one issue per check that fails
IssuesOf(path, failed) == [i \in 1..Len(failed) |-> Issue(path, failed[i].message)]

ZString(path, v, checks) ==
  IF v.type # "string" THEN TypeIssue(path, v)
  ELSE IssuesOf(path, SelectSeq(checks, LAMBDA check : Fails(check, v)))

\* z.enum([...])
ZEnum(path, v, values) ==
  IF v.type # "string" THEN TypeIssue(path, v)
  ELSE IF v.text \notin {<<x>> : x \in values} THEN <<Issue(path, "Invalid enum value")>>
  ELSE <<>>

IndexText(i) == <<"0", "1", "2", "3", "4", "5", "6", "7", "8", "9", "10", "11">>[i]

\* an item of verusFeatures, or of screenshots
ItemSchema(item, path, v) ==
  IF item = "feature" THEN ZEnum(path, v, VerusFeatures)
  ELSE ZString(path, v, <<Check("max", 100, "Screenshot filename must be 100 characters or less")>>)

RECURSIVE ItemIssues(_, _, _, _)
\* the issues of the items of an array from item i on, each under its index
ItemIssues(item, path, items, i) ==
  IF i > Len(items) THEN <<>>
  ELSE ItemSchema(item, Append(path, IndexText(i)), items[i])
         \o ItemIssues(item, path, items, i + 1)

\* z.array(item).min(n) / .max(n): the length, then every item
ZArray(path, v, kind, bound, message, item) ==
  IF v.type # "array" THEN TypeIssue(path, v)
  ELSE (IF (kind = "min" /\ Len(v.items) < bound) \/ (kind = "max" /\ Len(v.items) > bound)
          THEN <<Issue(path, message)>> ELSE <<>>)
       \o ItemIssues(item, path, v.items, 1)

\* .optional()
Optional(v, issues) == IF v.type = "undefined" THEN <<>> ELSE issues

Fields ==
  <<"name", "slug", "description", "longDescription", "category", "repo",
    "verusFeatures", "maintainer", "liveUrl", "docsUrl", "logo", "screenshots">>

\* the issues of one key of ProjectYAMLSchema
FieldIssues(key, v) ==
  LET path == <<key>>
  IN  CASE key = "name" ->
             ZString(path, v, <<Check("min", 1, "Name is required"),
                                Check("max", 100, "Name must be 100 characters or less")>>)
        [] key = "slug" ->
             ZString(path, v, <<Check("min", 1, "Slug is required"),
                                Check("max", 100, "Slug must be 100 characters or less"),
                                Check("regex", 0, "Slug must be lowercase alphanumeric with hyphens")>>)
        [] key = "description" ->
             ZString(path, v, <<Check("min", 1, "Description is required"),
                                Check("max", 200, "Description must be 200 characters or less")>>)
        [] key = "longDescription" ->
             ZString(path, v, <<Check("min", 1, "Long description is required"),
                                Check("max", 10000, "Long description must be 10000 characters or less")>>)
        [] key = "category" -> ZEnum(path, v, CATEGORIES)
        [] key = "repo" ->
             ZString(path, v, <<Check("gitHubUrl", 0, "Invalid GitHub repository URL")>>)
        [] key = "verusFeatures" ->
             ZArray(path, v, "min", 1, "At least one Verus feature is required", "feature")
        [] key = "maintainer" ->
             Optional(v, ZString(path, v,
                        <<Check("max", 100, "Maintainer must be 100 characters or less")>>))
        [] key = "liveUrl" ->
             Optional(v, ZString(path, v, <<Check("safeUrl", 0, "Invalid or unsafe URL")>>))
        [] key = "docsUrl" ->
             Optional(v, ZString(path, v, <<Check("safeUrl", 0, "Invalid or unsafe URL")>>))
        [] key = "logo" ->
             Optional(v, ZString(path, v,
                        <<Check("max", 100, "Logo filename must be 100 characters or less")>>))
        [] key = "screenshots" ->
             Optional(v, ZArray(path, v, "max", 10, "Maximum 10 screenshots allowed",
                                "screenshot"))

RECURSIVE IssuesFrom(_, _)
\* the issues of the keys from the i-th on, in the order of the schema
IssuesFrom(data, i) ==
  IF i > Len(Fields) THEN <<>>
  ELSE FieldIssues(Fields[i], data[Fields[i]]) \o IssuesFrom(data, i + 1)

\* the result of safeParse: success with the data, or the issues
SafeParseReturn(data, issues) == [success |-> issues = <<>>, data |-> data, issues |-> issues]

\* a parse that stops at the first issue
safeParseFirst(data) == SafeParseReturn(data, SubSeq(IssuesFrom(data, 1), 1, 1))

\* ProjectYAMLSchema.safeParse(data)
safeParse(data) == SafeParseReturn(data, IssuesFrom(data, 1))

\* validateProjectYAML after safeParse: the data, or the Error thrown, its
\* message made of the file name and one line per issue (path joined with
\* ".", message)
ThrowOrReturn(result, filename) ==
  IF ~result.success
    THEN [threw |-> TRUE, filename |-> filename, errors |-> result.issues, data |-> <<>>]
  ELSE [threw |-> FALSE, filename |-> <<>>, errors |-> <<>>, data |-> result.data]

validateProjectYAML(data, filename) == ThrowOrReturn(safeParse(data), filename)

\* a caller validates a URL: what the two validators and the fetcher's
\* parseGitHubUrl make of the same text
CheckUrl(url) ==
  /\ seen = <<>>
  /\ seen' = <<[kind |-> "url", input |-> url,
                external |-> validateExternalUrl(url),
                github |-> validateGitHubUrl(url),
                parsed |-> parseGitHubUrl(url)]>>
  /\ UNCHANGED <<envVars, now, pass, seedUse, runsLeft, ticks>>

\* a caller shuffles an array with a seed
Shuffle(array, seed) ==
  /\ seen = <<>>
  /\ seen' = <<[kind |-> "shuffle", input |-> array, seed |-> seed,
                draws |-> DrawsFrom(seed, Len(array) - 1),
                array |-> ShuffleCall(array, seed).array,
                result |-> seededShuffle(array, seed)]>>
  /\ UNCHANGED <<envVars, now, pass, seedUse, runsLeft, ticks>>

\* a caller validates the parsed YAML of a file
CheckRecord(data, filename) ==
  /\ seen = <<>>
  /\ seen' = <<[kind |-> "record", data |-> data, filename |-> filename,
                outcome |-> validateProjectYAML(data, filename)]>>
  /\ UNCHANGED <<envVars, now, pass, seedUse, runsLeft, ticks>>

\* the identifiers looked up
SlugArgs == {<<"a">>, <<"c">>, <<"broken">>, <<"_", "template">>, <<"missing">>}

\* the responses to the calls of getFeaturedProjects: the summary arrives or
\* the request fails, the languages arrive or are refused
FeaturedRepoOutcomes == {NetErr, GoodRepo}
FeaturedLangOutcomes == {Http(500, Unread), Http(200, LangJson(<<"TypeScript", "CSS">>))}

\* the events of a call under way
Progress(repoOutcomes, langOutcomes) ==
  \/ \E c \in Workers, i \in 1..MaxFeatured + 1, o \in repoOutcomes : RespondRepo(c, i, o)
  \/ \E c \in Workers, i \in 1..MaxFeatured + 1, o \in langOutcomes : RespondLanguages(c, i, o)
  \/ \E c \in Workers : Return(c)
  \/ \E c \in Workers : Reject(c)

Next ==
  \/ \E c \in Workers, kind \in Kinds : Start(c, kind)
  \/ \E c \in Workers, slug \in SlugArgs : Lookup(c, slug)
  \/ Progress(RepoOutcomes, LangOutcomes)

NextFeatured ==
  \/ \E c \in Workers : Start(c, "featured")
  \/ Progress(FeaturedRepoOutcomes, FeaturedLangOutcomes)
  \/ Tick

NextDays == Watch

\* the texts validated: blanks, a scheme or none, slashes, a host or none, a path
UrlInputs ==
  {lead \o scheme \o slashes \o host \o path \o trail :
     lead \in {<<>>, <<Space>>},
     scheme \in {<<>>} \cup {<<x>> : x \in SchemeTokens},
     slashes \in {<<>>, <<Slash, Slash>>, <<Slash, Slash, Slash>>},
     host \in {<<>>, <<"github.com">>, <<"www.github.com">>, <<"GitHub.com">>,
               <<"notgithub.com">>, <<"example.com">>},
     path \in {<<>>, <<Slash>>, <<Slash, "onlyowner">>, <<Slash, "path">>,
               <<Slash, "alice", Slash>>,
               <<Slash, "alice", Slash, "wallet">>,
               <<Slash, "alice", Slash, "wallet", ".git">>,
               <<Slash, Slash, "alice", Slash, "wallet">>,
               <<Slash, "alice", Slash, "wallet", Slash, "tree">>},
     trail \in {<<>>, <<Space>>}}
  \cup {<<"javascript:", "alert(1)">>, <<"data:", "text/html,...">>,
        <<"file:", Slash, Slash, Slash, "etc", Slash, "passwd">>, <<Space, Space>>}

MaxFaults == 3

Text(length) == Str(<<"text">>, length, FALSE)

\* a record that passes the schema
ValidRecord ==
  [name |-> Text(100),
   slug |-> Str(<<"my-project">>, 10, TRUE),
   description |-> Text(200),
   longDescription |-> Text(10000),
   category |-> Str(<<"app">>, 3, TRUE),
   repo |-> Str(UrlAlice, 35, FALSE),
   verusFeatures |-> Arr(<<Str(<<"VerusID">>, 7, FALSE)>>),
   maintainer |-> Text(100),
   liveUrl |-> Str(<<"https:", Slash, Slash, "example.com">>, 19, FALSE),
   docsUrl |-> Str(<<"http:", Slash, Slash, "example.com", Slash, "path">>, 23, FALSE),
   logo |-> Text(8),
   screenshots |-> Arr(<<Text(100)>>)]

OptionalFields == {"maintainer", "liveUrl", "docsUrl", "logo", "screenshots"}

\* values of a key that break a rule of the schema
Violating(key) ==
  CASE key = "name" -> {Undefined, Text(0)}
    [] key = "slug" -> {Str(<<>>, 0, FALSE), Str(<<"My Project">>, 10, FALSE)}
    [] key = "description" -> {Text(201)}
    [] key = "longDescription" -> {Text(10001)}
    [] key = "category" -> {Undefined, Str(<<"game">>, 4, TRUE)}
    [] key = "repo" -> {Str(UrlOnlyOwner, 28, FALSE),
                        Str(<<"javascript:", "alert(1)">>, 19, FALSE)}
    [] key = "verusFeatures" -> {Arr(<<>>),
                                 Arr(<<Str(<<"VerusID">>, 7, FALSE), Str(<<"Bogus">>, 5, FALSE)>>)}
    [] key = "maintainer" -> {Text(101)}
    [] key = "liveUrl" -> {Str(<<"javascript:", "alert(1)">>, 19, FALSE)}
    [] key = "docsUrl" -> {Str(<<"data:", "text/html,...">>, 18, FALSE)}
    [] key = "logo" -> {Text(101)}
    [] key = "screenshots" -> {Arr([i \in 1..11 |-> Text(5)]), Arr(<<Text(5), Text(101)>>)}

\* the other values of a key that keep the rules: an optional key left out
Conforming(key) == IF key \in OptionalFields THEN {Undefined} ELSE {}

\* the parsed YAML validated: the valid record with up to MaxFaults keys changed
RawRecords ==
  {[key \in DOMAIN ValidRecord |-> IF key \in DOMAIN change THEN change[key] ELSE ValidRecord[key]] :
     change \in UNION {{f \in [keys -> UNION {Violating(k) \cup Conforming(k) : k \in keys}] :
                           \A k \in keys : f[k] \in Violating(k) \cup Conforming(k)} :
                        keys \in {K \in SUBSET DOMAIN ValidRecord : Cardinality(K) <= MaxFaults}}}

\* the calls HomePage makes side by side, one to a worker
HomePageCall(c) == <<"all", "featured", "library">>[((c - 1) % 3) + 1]

NextConcurrent ==
  \/ \E c \in Workers : Start(c, HomePageCall(c))
  \/ Progress(FeaturedRepoOutcomes, FeaturedLangOutcomes)

NextValidate ==
  \/ \E url \in UrlInputs : CheckUrl(url)
  \/ \E data \in RawRecords, filename \in {FA, FB} : CheckRecord(data, filename)

\* the summaries differ in their stars, one carries none
ViewRepoOutcomes ==
  {NetErr, GoodRepo, Http(200, ErrorJson),
   Http(200, RepoJson(5, 2, <<"2024-02-01">>, <<>>))}

\* the views over the aggregate, the maintainer view for three names
NextViews ==
  \/ \E c \in Workers, kind \in {"all", "featured", "library"} : Start(c, kind)
  \/ \E c \in Workers, name \in {<<"BOB", "B.">>, <<"alice">>, <<"Unknown">>} :
        StartMaintainer(c, name)
  \/ Progress(ViewRepoOutcomes, FeaturedLangOutcomes)

NextLookup ==
  \/ \E c \in Workers, slug \in SlugArgs : Lookup(c, slug)
  \/ Progress(FeaturedRepoOutcomes, FeaturedLangOutcomes)

(***************************************************************************)
(* The stores and the specifications                                       *)
(***************************************************************************)
StoreFiles == {FTemplate, FNotes, FBroken, FA, FB, FC}

\* the sequences of distinct files of S of length at most n, in any order
AnyOrder(S, n) == {l \in Listings(S, n) : Distinct(l)}

MasterListing == <<FA, FC, FD, FE, FF, FG>>

Reverse(l) == [i \in 1..Len(l) |-> l[Len(l) + 1 - i]]

RECURSIVE SubListings(_, _)
\* the subsequences of l of length at most n
SubListings(l, n) ==
  IF Len(l) = 0 \/ n = 0 THEN {<<>>}
  ELSE SubListings(Tail(l), n)
       \cup {<<Head(l)>> \o r : r \in SubListings(Tail(l), n - 1)}

\* the featured stores: files in the master order, one store in another
\* order, one store with a file that cannot be read, and stores with two
\* fetches
FeaturedListings ==
  SubListings(MasterListing, MaxFeatured)
    \cup {Reverse(SubSeq(<<FA, FC, FD, FF, FE, FG>>, 1, MaxFeatured)),
          <<FA, FBroken>>, <<FA, FB, FD>>, <<FB, FF, FA, FD>>}

\* the last instant of 31 January 2024
StartInstant == Instant(2024, 0, 31, SlotsPerDay - 1)

InitStore(listings, folders, calls) ==
  /\ dirExists \in BOOLEAN
  /\ listing \in {l \in listings : ~dirExists => l = <<>>}
  /\ content \in {f \in [Range(listing) -> UNION {Choices(x) : x \in Range(listing)}] :
                    \A x \in Range(listing) : f[x] \in Choices(x)}
  /\ images \in folders
  /\ now = StartInstant
  /\ workers = {1}
  /\ pass = [c \in Workers |-> IdlePass]
  /\ seen = <<>>
  /\ seedUse = NoSeedUse
  /\ runsLeft = calls
  /\ ticks = 0

\* one call over a small store, every order of the listing, two fetches
Init == InitStore(AnyOrder(StoreFiles, MaxFiles), {ImageFolders}, 1)

Spec == Init /\ [][Next]_vars

\* several calls over larger stores while the clock moves
InitFeatured ==
  InitStore(FeaturedListings, {ImageFolders}, MaxRuns)

SpecFeatured == InitFeatured /\ [][NextFeatured]_vars

\* stores with the template, libraries and tools among their records
ViewListings ==
  {<<FC, FA, FTemplate, FB>>, <<FB, FTemplate, FD, FA>>, <<FTemplate>>, <<FA, FBroken>>}

ViewContent ==
  (FTemplate :> [RecTemplate EXCEPT !.category = "tool"])
  @@ (FA :> [RecA EXCEPT !.category = "library"])
  @@ (FB :> [RecB EXCEPT !.category = "library"])
  @@ (FC :> RecC("tool"))
  @@ (FD :> RecD)
  @@ (FBroken :> Unreadable)

\* one call of a view over a store that holds the template
InitViews ==
  /\ dirExists = TRUE
  /\ listing \in ViewListings
  /\ content = [f \in Range(listing) |-> ViewContent[f]]
  /\ images = ImageFolders
  /\ now = StartInstant
  /\ workers = {1}
  /\ pass = [c \in Workers |-> IdlePass]
  /\ seen = <<>>
  /\ seedUse = NoSeedUse
  /\ runsLeft = 1
  /\ ticks = 0

SpecViews == InitViews /\ [][NextViews]_vars

\* every worker may have a call under way at once, over a store with one
\* record to fetch and one without a repository on GitHub
InitConcurrent ==
  /\ dirExists = TRUE
  /\ listing \in {<<FA, FC>>, <<FC, FA>>, <<FBroken, FA>>}
  /\ content = [f \in Range(listing) |->
                  IF f = FA THEN RecA ELSE IF f = FC THEN RecC("tool") ELSE Unreadable]
  /\ images = ImageFolders
  /\ now = StartInstant
  /\ workers = Workers
  /\ pass = [c \in Workers |-> IdlePass]
  /\ seen = <<>>
  /\ seedUse = NoSeedUse
  /\ runsLeft = NumWorkers
  /\ ticks = 0

SpecConcurrent == InitConcurrent /\ [][NextConcurrent]_vars

\* no store and no call: texts and records are validated
InitValidate ==
  /\ dirExists = FALSE
  /\ listing = <<>>
  /\ content = <<>>
  /\ images = ImageFolders
  /\ now = StartInstant
  /\ workers = {}
  /\ pass = [c \in Workers |-> IdlePass]
  /\ seen = <<>>
  /\ seedUse = NoSeedUse
  /\ runsLeft = 0
  /\ ticks = 0

SpecValidate == InitValidate /\ [][NextValidate]_vars

\* getAllProjects over stores of one or two files, one of them unreadable in
\* one store; a request may stay unanswered for ever
NextLive ==
  \/ \E c \in Workers : Start(c, "all")
  \/ Progress(FeaturedRepoOutcomes, FeaturedLangOutcomes)

InitLive == InitStore({<<FA>>, <<FA, FB>>, <<FBroken, FA>>}, {ImageFolders}, MaxRuns)

\* the continuation of a settled Promise.all is run: the call returns or
\* rejects once it can.  Nothing is assumed of the requests.
Scheduling == \A c \in Workers : WF_vars(Return(c)) /\ WF_vars(Reject(c))

SpecLive == InitLive /\ [][NextLive]_vars /\ Scheduling

\* the arrays shuffled: up to MaxLen elements out of three, repeats allowed
MaxLen == 4

ShuffleArrays == UNION {[1..n -> {"a", "b", "c"}] : n \in 0..MaxLen}

\* the seeds: daily seeds of the year, and words at the ends of the range
ShuffleSeeds ==
  {Word(0, 0), Word(0, 1), Word(8154, 19854), Word(29333, 56441), Word(32767, 65535),
   Word(32768, 0), Word(65535, 65535)}

NextShuffle == \E array \in ShuffleArrays, seed \in ShuffleSeeds : Shuffle(array, seed)

\* no call has been made and no store is read
InitShuffle == InitValidate

SpecShuffle == InitShuffle /\ [][NextShuffle]_vars

\* calls of getProjectBySlug one after the other over one store
SpecLookup ==
  InitStore({<<FA, FC, FBroken, FTemplate>>}, {ImageFolders}, MaxRuns)
    /\ [][NextLookup]_vars

\* the clock alone, from 1 January 2024 on
InitDays ==
  /\ dirExists = FALSE
  /\ listing = <<>>
  /\ content = <<>>
  /\ images = ImageFolders
  /\ now = Instant(2024, 0, 1, 0)
  /\ workers = {}
  /\ pass = [c \in Workers |-> IdlePass]
  /\ seen = <<>>
  /\ seedUse = SeedUse(now)
  /\ runsLeft = 0
  /\ ticks = 0

SpecDays == InitDays /\ [][NextDays]_vars

(***************************************************************************)
(* Properties                                                              *)
(***************************************************************************)
RecordFiles == SelectSeq(listing, IsRecordFile)

\* the slugs of the records of the store, in listing order
RecordSlugs == [i \in 1..Len(RecordFiles) |-> content[RecordFiles[i]].slug]

\* how many times x occurs in the sequence l
Count(l, x) == Cardinality({i \in 1..Len(l) : l[i] = x})

SameMultiset(l, m) == \A x \in Range(l) \cup Range(m) : Count(l, x) = Count(m, x)

ReturnedAll(c) == pass[c].pc = "returned" /\ pass[c].kind = "all"

ReturnedFeatured(c) == pass[c].pc = "returned" /\ pass[c].kind = "featured"

\* the tasks of every call under way or over
TasksOf(c) == {pass[c].tasks[i] : i \in 1..Len(pass[c].tasks)}

AllTasks == UNION {TasksOf(c) : c \in Workers}

Fetched(task) == task.repoRes # NotIssued

\* the request failed: no response, or a response with a non-success status
Failed(res) == Rejected(res) \/ (res.kind = "http" /\ ~Ok(res))

\* the response arrived with a success status and its body is not JSON
BadBody(res) == Ok(res) /\ JsonThrows(res)

\* the response arrived and its rate-limit headers make checkRateLimit throw
BadHeaders(res) == res.kind = "http" /\ checkRateLimitThrows(res)

\* C1: whenever getAllProjects returns, it returns one project per record
\* file of the listing (.yaml, no leading underscore): as many projects as
\* record files, with the same slugs the same number of times, whichever
\* fetches failed.
C1_OneProjectPerRecord ==
  \A c \in Workers :
    ReturnedAll(c) =>
      /\ Len(pass[c].projects) = Len(RecordFiles)
      /\ SameMultiset(Slugs(pass[c].projects), RecordSlugs)

\* a call returned two projects, one with metadata and one whose fetch failed
C1_Witness ==
  \E c \in Workers :
    /\ ReturnedAll(c)
    /\ Len(pass[c].projects) = 2
    /\ \E i, j \in 1..2 :
         /\ Fetched(pass[c].tasks[i]) /\ pass[c].projects[i].github.null
         /\ ~pass[c].projects[j].github.null

\* C2 as written: a project whose URL does not parse or one of whose two
\* requests failed (network error or non-success status) has github null,
\* and no fetch makes the call reject.
C2_AnyFailureGivesNull ==
  \A c \in Workers :
    /\ \A task \in TasksOf(c) :
         /\ task.state # "fetchfail"
         /\ (task.state = "done"
               /\ (\/ ~parseGitHubUrl(task.yaml.repo).ok
                   \/ Failed(task.repoRes)
                   \/ Failed(task.languagesRes)))
              => task.project.github.null
    /\ pass[c].pc = "rejected" => \E task \in TasksOf(c) : task.state = "readfail"

\* C2: in the output of getAllProjects and getProjectBySlug a project has
\* github null when its URL does not parse, when the summary request failed
\* (network error, non-success status, rate limit), when the languages
\* request met a network error, or when handling the responses throws (a
\* body read is not JSON, the rate-limit check meets a reset header that is
\* no number); a non-success status of the languages request alone leaves
\* github set, with no languages. No fetch makes the call reject: a call
\* rejects only for a file that cannot be read.
C2_FailureGivesNull ==
  \A c \in Workers :
    /\ \A task \in TasksOf(c) :
         /\ task.state # "fetchfail"
         /\ (task.state = "done"
               /\ (\/ ~parseGitHubUrl(task.yaml.repo).ok
                   \/ Failed(task.repoRes)
                   \/ Rejected(task.languagesRes)
                   \/ BadBody(task.repoRes)
                   \/ BadBody(task.languagesRes)
                   \/ BadHeaders(task.repoRes)))
              => task.project.github.null
         /\ (task.state = "done"
               /\ Ok(task.repoRes) /\ ~JsonThrows(task.repoRes)
               /\ ~BadHeaders(task.repoRes)
               /\ task.languagesRes.kind = "http" /\ ~Ok(task.languagesRes))
              => (~task.project.github.null /\ task.project.github.languages = <<>>)
    /\ pass[c].pc = "rejected" => \E task \in TasksOf(c) : task.state = "readfail"
    /\ pass[c].pc = "returned" =>
         \A i \in 1..Len(pass[c].tasks) : pass[c].projects[i] = pass[c].tasks[i].project

\* a call returned two projects: one with github set and no languages after
\* a refused languages request, one with github null after a failed summary
\* request
C2_Witness ==
  \E c \in Workers :
    /\ ReturnedAll(c)
    /\ Len(pass[c].tasks) = 2
    /\ \E i, j \in 1..2 :
         /\ pass[c].tasks[i].languagesRes.kind = "http"
         /\ ~Ok(pass[c].tasks[i].languagesRes)
         /\ ~pass[c].projects[i].github.null
         /\ pass[c].projects[i].github.languages = <<>>
         /\ Failed(pass[c].tasks[j].repoRes)
         /\ pass[c].projects[j].github.null

\* C3: fetchGitHubData never rejects: whatever the URL and however the two
\* requests end (network error, non-success status, rate limit, body that is
\* not JSON), the callback awaiting it goes on with metadata or with null.
C3_FetchNeverRejects ==
  \A task \in AllTasks :
    /\ task.state # "fetchfail"
    /\ (Fetched(task) /\ AllSettled(task.repoRes, task.languagesRes)) =>
         /\ task.state = "done"
         /\ ~FetchResult(task.repoRes, task.languagesRes).threw
         /\ task.project.github = FetchResult(task.repoRes, task.languagesRes).value
    /\ (task.yaml.readable /\ ~parseGitHubUrl(task.yaml.repo).ok) =>
         (task.state = "done" /\ task.project.github = NullData)

\* a call returned after two fetches that ended with null: one on a network
\* error of the languages request while the summary was awaited, one on a
\* summary body that is not JSON
C3_Witness ==
  \E c \in Workers :
    /\ pass[c].pc = "returned"
    /\ \E i, j \in 1..Len(pass[c].tasks) :
         /\ Rejected(pass[c].tasks[i].languagesRes)
         /\ pass[c].tasks[i].repoRes = Pending
         /\ BadBody(pass[c].tasks[j].repoRes)
         /\ Ok(pass[c].tasks[j].languagesRes)
         /\ pass[c].projects[i].github = NullData
         /\ pass[c].projects[j].github = NullData

\* C4: the projects getAllProjects returns are in the order of the record
\* files of the listing, in whatever order the fetches completed.
C4_ListingOrder ==
  \A c \in Workers :
    ReturnedAll(c) =>
      /\ Len(pass[c].projects) = Len(RecordFiles)
      /\ \A i \in 1..Len(RecordFiles) :
           /\ pass[c].projects[i].slug = RecordSlugs[i]
           /\ pass[c].projects[i].name = content[RecordFiles[i]].name

\* a call returned after the fetch of its second file completed before the
\* fetch of its first
C4_Witness ==
  \E c \in Workers :
    /\ ReturnedAll(c)
    /\ pass[c].completed = <<2, 1>>
    /\ Fetched(pass[c].tasks[1]) /\ Fetched(pass[c].tasks[2])
    /\ pass[c].projects[1].slug # pass[c].projects[2].slug

\* C5: getAllProjects does not return while a fetch of the call is
\* unresolved: when it has returned, every callback has its project and the
\* requests of every fetch it issued have settled.
C5_ReturnsAfterEveryFetch ==
  \A c \in Workers :
    ReturnedAll(c) =>
      \A task \in TasksOf(c) :
        /\ task.state = "done"
        /\ Fetched(task) => AllSettled(task.repoRes, task.languagesRes)
        /\ task.project # NoProject

\* a call of two fetches returned, one fetch with metadata and one with null
C5_Witness ==
  \E c \in Workers :
    /\ ReturnedAll(c)
    /\ Len(pass[c].tasks) = 2
    /\ \A i \in 1..2 : Fetched(pass[c].tasks[i])
    /\ \E i, j \in 1..2 :
         pass[c].projects[i].github.null /\ ~pass[c].projects[j].github.null

\* the least of two numbers
Min(a, b) == IF a < b THEN a ELSE b

\* the image folder of slug holds a featured image
HasFeaturedAsset(slug) ==
  slug \in DOMAIN images /\ images[slug] \cap {"featured.png", "featured.jpg"} # {}

\* C6: getFeaturedProjects returns min(3, |eligible|) projects, eligible
\* being the merged projects that pass the eligibility filter, in order; the
\* projects returned are eligible and pairwise distinct, and none is returned
\* when none is eligible.
C6_FeaturedCount ==
  \A c \in Workers :
    ReturnedFeatured(c) =>
      LET eligible == Eligible(pass[c].projects)
          result == pass[c].result
      IN  /\ Len(result) = Min(3, Len(eligible))
          /\ \A i \in 1..Len(result) : result[i] \in Range(eligible)
          /\ \A i, j \in 1..Len(result) : i # j => result[i].slug # result[j].slug
          /\ Len(eligible) = 0 => result = <<>>

\* a call returned three of four eligible projects, not the first three
C6_Witness ==
  \E c \in Workers :
    /\ ReturnedFeatured(c)
    /\ Len(Eligible(pass[c].projects)) = 4
    /\ Len(pass[c].result) = 3
    /\ pass[c].result # SubSeq(Eligible(pass[c].projects), 1, 3)

\* C7: every project getFeaturedProjects returns has a category among app,
\* wallet and dashboard and a featured image under its slug; a project of
\* another category is never returned, with or without the image, nor is a
\* project without the image; and a tool with the image becomes eligible when
\* only its category is changed to app.
C7_Eligibility ==
  \A c \in Workers :
    ReturnedFeatured(c) =>
      /\ \A i \in 1..Len(pass[c].result) :
           /\ pass[c].result[i].category \in {"app", "wallet", "dashboard"}
           /\ HasFeaturedAsset(pass[c].result[i].slug)
      /\ \A i \in 1..Len(pass[c].projects) :
           LET project == pass[c].projects[i]
           IN  /\ project.category \notin {"app", "wallet", "dashboard"}
                    => project \notin Range(pass[c].result)
               /\ ~HasFeaturedAsset(project.slug)
                    => project \notin Range(pass[c].result)
               /\ (project.category = "tool" /\ HasFeaturedAsset(project.slug))
                    => /\ ~IsEligible(project)
                       /\ IsEligible([project EXCEPT !.category = "app"])
               /\ (project.category \in {"app", "wallet", "dashboard"}
                     /\ HasFeaturedAsset(project.slug)
                     /\ Len(Eligible(pass[c].projects)) <= 3)
                    => project \in Range(pass[c].result)

\* a call returned some projects and left out a tool that has the image, an
\* app that has a folder without the image and an app that has no folder
C7_Witness ==
  \E c \in Workers :
    /\ ReturnedFeatured(c)
    /\ Len(pass[c].result) > 0
    /\ \E i, j, k \in 1..Len(pass[c].projects) :
         /\ pass[c].projects[i].category = "tool"
         /\ HasFeaturedAsset(pass[c].projects[i].slug)
         /\ pass[c].projects[j].category = "app"
         /\ pass[c].projects[j].slug \in DOMAIN images
         /\ ~HasFeaturedAsset(pass[c].projects[j].slug)
         /\ pass[c].projects[k].category = "app"
         /\ pass[c].projects[k].slug \notin DOMAIN images
         /\ \A n \in {i, j, k} : pass[c].projects[n] \notin Range(pass[c].result)

\* C8: two runs of the featured selection on the same UTC date over the same
\* ordered eligible list give the same output, in whatever order the fetches
\* of the runs completed and whatever metadata they fetched.
C8_Deterministic ==
  \A i, j \in 1..Len(seen) :
    (seen[i].date = seen[j].date /\ seen[i].eligible = seen[j].eligible)
      => seen[i].output = seen[j].output

\* two runs on one date over the same three or more eligible projects, the
\* fetched stars and the order of completion differing between the runs
C8_Witness ==
  /\ Len(seen) = 2
  /\ seen[1].date = seen[2].date
  /\ seen[1].eligible = seen[2].eligible
  /\ Len(seen[1].eligible) >= 3
  /\ seen[1].stars # seen[2].stars
  /\ seen[1].order # seen[2].order
  /\ seen[1].output # seen[1].eligible
  /\ seen[1].output = seen[2].output

\* C9: the calls of getDailySeed on one UTC date give the same seed, and the
\* seed of one UTC date differs from the seed of the next date.
C9_DailySeed ==
  [][/\ UTCDate(now') = UTCDate(now) => seedUse'.seed = seedUse.seed
     /\ UTCDate(now') # UTCDate(now) =>
          (UTCDate(now') = UTCDate(NextDay(now)) /\ seedUse'.seed # seedUse.seed)]_vars

\* the clock has passed the ends of months, 29 February 2024 and the end of
\* the year, the seed read at each instant
C9_Witness ==
  /\ now.year = 2025
  /\ now.month = 1
  /\ ticks > 2 * 366
  /\ seedUse = SeedUse(now)

\* C10: when the summary request ended with a non-success status, the
\* metadata is null whatever the languages request gave; metadata is only
\* ever assembled from a summary response with a success status.
C10_SummaryFailureGivesNull ==
  \A task \in AllTasks :
    /\ (task.state = "done" /\ task.repoRes.kind = "http" /\ ~Ok(task.repoRes))
         => task.project.github = NullData
    /\ (task.state = "done" /\ ~task.project.github.null)
         => (Ok(task.repoRes) /\ ~JsonThrows(task.repoRes)
               /\ task.project.github.stars = OrZero(task.repoRes.body.stargazers_count))

\* the summary request was refused while the languages request succeeded
C10_Witness ==
  \E task \in AllTasks :
    /\ task.state = "done"
    /\ task.repoRes.kind = "http" /\ task.repoRes.status = 404
    /\ Ok(task.languagesRes) /\ ~JsonThrows(task.languagesRes)
    /\ task.project.github = NullData

\* the summary request succeeded: a success status, headers and body read
SummaryRead(res) == Ok(res) /\ ~JsonThrows(res) /\ ~BadHeaders(res)

\* the metadata is the summary's, with the given languages
FromSummary(github, res, languages) ==
  github = [null |-> FALSE,
            stars |-> OrZero(res.body.stargazers_count),
            forks |-> OrZero(res.body.forks_count),
            lastCommit |-> res.body.pushed_at,
            license |-> res.body.license,
            languages |-> languages]

\* C11: whenever the summary request succeeded and the languages request
\* failed (no response, or a response with a non-success status), the fetch
\* gives metadata with no languages and the stars, forks, last commit and
\* license of the summary.
C11_LanguagesFailureKeepsSummary ==
  \A task \in AllTasks :
    (task.state = "done" /\ SummaryRead(task.repoRes) /\ Failed(task.languagesRes))
      => FromSummary(task.project.github, task.repoRes, <<>>)

\* C12 as written: the metadata is null when either request failed, and
\* metadata is only ever built from two responses with a success status.
C12_TwoSuccessesOrNull ==
  \A task \in AllTasks :
    task.state = "done" =>
      /\ (Failed(task.repoRes) \/ Failed(task.languagesRes)) => task.project.github.null
      /\ ~task.project.github.null => (Ok(task.repoRes) /\ Ok(task.languagesRes))

\* C12: the metadata is null when the summary request failed or either
\* request met a network error, and it is never partly filled: metadata
\* carries all five fields, the first four from a summary response with a
\* success status, the languages from the languages response when it has a
\* success status and empty when it has not.
C12_NullOrWhole ==
  \A task \in AllTasks :
    task.state = "done" =>
      /\ (Failed(task.repoRes) \/ Rejected(task.languagesRes)) => task.project.github.null
      /\ task.project.github.null => task.project.github = NullData
      /\ ~task.project.github.null =>
           /\ SummaryRead(task.repoRes)
           /\ task.languagesRes.kind = "http"
           /\ FromSummary(task.project.github, task.repoRes,
                          IF Ok(task.languagesRes) THEN task.languagesRes.body.keys
                          ELSE <<>>)

\* a fetch gave whole metadata without languages after a refused languages
\* request, the summary lacking its counts
C12_Witness ==
  \E task \in AllTasks :
    /\ task.state = "done"
    /\ task.repoRes = Http(200, ErrorJson)
    /\ task.languagesRes = Http(500, Unread)
    /\ task.project.github =
         [null |-> FALSE, stars |-> 0, forks |-> 0, lastCommit |-> <<>>,
          license |-> <<>>, languages |-> <<>>]

\* the requests issued by the first n tasks
RECURSIVE RequestsUpTo(_, _)
RequestsUpTo(tasks, n) ==
  IF n = 0 THEN 0 ELSE RequestsUpTo(tasks, n - 1) + tasks[n].requests

\* the record files whose repo URL parses
Parsable(files) ==
  SelectSeq(files, LAMBDA f : content[f].readable /\ parseGitHubUrl(content[f].repo).ok)

\* C13: a fetch issues two requests when the URL parses and none when it
\* does not, and never another one: after a failed or throttled (403, 429)
\* response it gives null with the two requests it made, so a call of
\* getAllProjects issues two requests per record whose URL parses.
C13_TwoRequestsNoRetry ==
  \A c \in Workers :
    /\ \A task \in TasksOf(c) :
         task.yaml.readable =>
           /\ task.requests = IF parseGitHubUrl(task.yaml.repo).ok THEN 2 ELSE 0
           /\ (task.state = "done" /\ Failed(task.repoRes))
                => (task.project.github.null /\ task.requests = 2)
    /\ (pass[c].pc \in {"fetching", "returned"} /\ pass[c].kind \in {"all", "featured"})
         => RequestsUpTo(pass[c].tasks, Len(pass[c].tasks)) = 2 * Len(Parsable(RecordFiles))

\* a call returned over two records, one whose URL does not parse and one
\* whose summary request was throttled
C13_Witness ==
  \E c \in Workers :
    /\ ReturnedAll(c)
    /\ Len(pass[c].tasks) = 2
    /\ RequestsUpTo(pass[c].tasks, 2) = 2
    /\ \E i, j \in 1..2 :
         /\ pass[c].tasks[i].repoRes.kind = "http"
         /\ pass[c].tasks[i].repoRes.status = 403
         /\ pass[c].projects[i].github.null
         /\ ~parseGitHubUrl(pass[c].tasks[j].yaml.repo).ok
         /\ pass[c].tasks[j].requests = 0

\* C14: the maintainer of a project from getAllProjects or getProjectBySlug
\* is the maintainer the record states, else the owner parsed from its repo
\* URL, else "Unknown"; so every project has a maintainer.
C14_Maintainer ==
  \A task \in AllTasks :
    task.state = "done" =>
      LET yaml == task.yaml
          parsed == parseGitHubUrl(yaml.repo)
          maintainer == task.project.maintainer
      IN  /\ yaml.maintainer # <<>> => maintainer = yaml.maintainer
          /\ (yaml.maintainer = <<>> /\ parsed.ok) => maintainer = parsed.owner
          /\ (yaml.maintainer = <<>> /\ ~parsed.ok) => maintainer = <<"Unknown">>
          /\ maintainer # <<>>
          /\ yaml.slug = <<"a">> => maintainer = <<"alice">>
          /\ yaml.slug = <<"b">> => maintainer = <<"Bob", "B.">>
          /\ yaml.slug = <<"c">> => maintainer = <<"Unknown">>

\* a call returned a project with the owner of its repo for maintainer and a
\* project with the maintainer its record states
C14_Witness ==
  \E c \in Workers :
    /\ ReturnedAll(c)
    /\ Len(pass[c].projects) = 2
    /\ pass[c].tasks[1].yaml.maintainer = <<>>
    /\ pass[c].projects[1].maintainer = <<"alice">>
    /\ pass[c].tasks[2].yaml.maintainer = <<"Bob", "B.">>
    /\ pass[c].projects[2].maintainer = <<"Bob", "B.">>

ReturnedLookup(c) == pass[c].pc = "returned" /\ pass[c].kind = "slug"

\* the task of getAllProjects for a record file, its two requests answered
\* as given
AggregatorTask(file, repoRes, languagesRes) ==
  LET task == StartTask(file, <<>>)
  IN  IF task.state = "inflight"
        THEN SettleTask([task EXCEPT !.repoRes = repoRes, !.languagesRes = languagesRes])
      ELSE task

\* C15: getProjectBySlug returns null when no record (a .yaml file of the
\* store that is not the reserved template) matches the identifier, and
\* otherwise the project getAllProjects holds for that record under the same
\* store and the same responses.
C15_LookupLikeAggregator ==
  \A c \in Workers :
    ReturnedLookup(c) =>
      LET file == pass[c].arg \o <<".yaml">>
      IN  IF FileExists(file) /\ IsRecordFile(file)
            THEN pass[c].result =
                   <<AggregatorTask(file, pass[c].tasks[1].repoRes,
                                    pass[c].tasks[1].languagesRes).project>>
          ELSE pass[c].result = <<>>

TaskFiles(c) == [i \in 1..Len(pass[c].tasks) |-> pass[c].tasks[i].file]

\* C17: no file whose name starts with "_" gets a callback or a project in
\* getAllProjects or in the featured, library and maintainer views, and
\* every other .yaml file of the listing gets one callback and, when the
\* call returns, one project; the views hold projects of the aggregate only.
C17_TemplateExcluded ==
  \A c \in Workers :
    pass[c].pc \in {"fetching", "returned", "rejected"} /\ pass[c].kind # "slug" =>
      /\ \A f \in Range(listing) :
           Count(TaskFiles(c), f) = IF f[Len(f)] = ".yaml" /\ f[1] # "_" THEN 1 ELSE 0
      /\ pass[c].pc = "returned" =>
           /\ pass[c].projects = [i \in 1..Len(pass[c].tasks) |-> pass[c].tasks[i].project]
           /\ Range(pass[c].result) \subseteq Range(pass[c].projects)
           /\ \A f \in Range(listing) :
                f[1] = "_" => content[f].slug \notin Range(Slugs(pass[c].result))

\* the maintainer view returned over a store whose template names the same
\* owner as a record: the record alone is in the view
C17_Witness ==
  \E c \in Workers :
    /\ pass[c].pc = "returned"
    /\ pass[c].kind = "maintainer"
    /\ FTemplate \in Range(listing)
    /\ Maintainer(content[FTemplate]) = pass[c].arg
    /\ Len(pass[c].projects) = 3
    /\ Slugs(pass[c].result) = <<content[FA].slug>>

ReturnedLibrary(c) == pass[c].pc = "returned" /\ pass[c].kind = "library"

\* the star count getLibraryProjects orders by
StarCount(project) == IF project.github.null THEN 0 ELSE project.github.stars

\* where a project stands in the aggregate
Place(c, project) == CHOOSE i \in 1..Len(pass[c].projects) : pass[c].projects[i] = project

\* C20: getLibraryProjects returns the aggregated projects of category
\* library or tool, each once, by non-increasing star count with null
\* metadata counting as 0, projects of equal count in their input order.
C20_LibraryOrder ==
  \A c \in Workers :
    ReturnedLibrary(c) =>
      LET result == pass[c].result
      IN  /\ Range(result) =
               {p \in Range(pass[c].projects) : p.category \in {"library", "tool"}}
          /\ Distinct(result)
          /\ \A i, j \in 1..Len(result) :
               i < j =>
                 /\ StarCount(result[i]) >= StarCount(result[j])
                 /\ StarCount(result[i]) = StarCount(result[j])
                      => Place(c, result[i]) < Place(c, result[j])

\* three libraries and tools returned, the one with most stars moved to the
\* front, a project without metadata and one with 0 stars in input order
C20_Witness ==
  \E c \in Workers :
    /\ ReturnedLibrary(c)
    /\ Len(pass[c].result) = 3
    /\ Len(pass[c].projects) = 3
    /\ pass[c].result[1] = pass[c].projects[3]
    /\ StarCount(pass[c].result[1]) > 0
    /\ pass[c].result[2].github.null
    /\ ~pass[c].result[3].github.null
    /\ StarCount(pass[c].result[3]) = 0

\* C18: a call of getAllProjects (alone or under getFeaturedProjects) one of
\* whose record files cannot be read or parsed never returns: it holds no
\* collection, partial or whole, whatever the other callbacks have fetched.
C18_UnreadableAborts ==
  \A c \in Workers :
    (pass[c].kind \in Kinds /\ \E task \in TasksOf(c) : task.state = "readfail") =>
      /\ pass[c].pc \in {"fetching", "rejected"}
      /\ pass[c].projects = <<>>
      /\ pass[c].result = <<>>

\* getAllProjects has rejected over a store with one file that cannot be
\* read and one record whose two requests were issued
C18_Witness ==
  \E c \in Workers :
    /\ pass[c].pc = "rejected"
    /\ pass[c].kind = "all"
    /\ \E task \in TasksOf(c) : task.state = "readfail"
    /\ \E task \in TasksOf(c) : task.requests = 2 /\ task.yaml.readable

\* C19 as written: when the projects directory does not exist, a call of
\* getAllProjects fails and returns no collection.
C19_MissingDirectoryFails ==
  \A c \in Workers :
    (~dirExists /\ pass[c].kind \in Kinds) => pass[c].pc = "rejected"

\* C19: when the projects directory does not exist, a call of getAllProjects
\* does not fail: it returns the empty collection, with no file read and no
\* request made.
C19_MissingDirectoryEmpty ==
  \A c \in Workers :
    (~dirExists /\ pass[c].kind \in Kinds) =>
      /\ pass[c].pc = "returned"
      /\ pass[c].tasks = <<>>
      /\ pass[c].projects = <<>>
      /\ pass[c].result = <<>>

\* getAllProjects has returned the empty collection over a missing directory
C19_Witness ==
  \E c \in Workers :
    /\ ~dirExists
    /\ ReturnedAll(c)
    /\ pass[c].result = <<>>
    /\ runsLeft = 0

\* the URL checks and the record checks observed
UrlChecks == {seen[i] : i \in {j \in 1..Len(seen) : seen[j].kind = "url"}}

RecordChecks == {seen[i] : i \in {j \in 1..Len(seen) : seen[j].kind = "record"}}

\* the keys of a validated record whose value breaks a rule
BrokenKeys(data) == {key \in DOMAIN ValidRecord : data[key] \in Violating(key)}

\* C21: validateProjectYAML returns the record when no key breaks a rule, and
\* otherwise throws an error that names the file and lists an issue for every
\* key that breaks a rule, not for the first alone.
C21_EveryViolationListed ==
  \A check \in RecordChecks :
    LET broken == BrokenKeys(check.data)
        errors == check.outcome.errors
    IN  /\ check.outcome.threw <=> broken # {}
        /\ ~check.outcome.threw => check.outcome.data = check.data
        /\ check.outcome.threw =>
             /\ check.outcome.filename = check.filename
             /\ {errors[i].path[1] : i \in 1..Len(errors)} = broken
             /\ Len(errors) >= Cardinality(broken)

\* a record without name and category and with a javascript: liveUrl was
\* refused with these three issues
C21_Witness ==
  \E check \in RecordChecks :
    /\ check.data["name"] = Undefined
    /\ check.data["category"] = Undefined
    /\ check.data["liveUrl"] = Str(<<"javascript:", "alert(1)">>, 19, FALSE)
    /\ check.outcome.threw
    /\ check.outcome.filename = FB
    /\ [i \in 1..Len(check.outcome.errors) |-> check.outcome.errors[i].path]
         = <<<<"name">>, <<"category">>, <<"liveUrl">>>>

\* C22: validateExternalUrl refuses every text that starts (blanks aside)
\* with javascript:, data:, vbscript:, file: or about: in any case, by the
\* pattern test, before the text is parsed; a text it accepts parses as a
\* URL with scheme http or https and a host; the examples come out as stated.
C22_UrlSafety ==
  \A check \in UrlChecks :
    LET text == Trim(check.input)
        denied == Len(text) > 0 /\ LowerToken(text[1]) \in
                    {"javascript:", "data:", "vbscript:", "file:", "about:"}
    IN  /\ denied => (~check.external.ok /\ check.external.stage = "blocked")
        /\ check.external.ok =>
             /\ check.external.value = text
             /\ NewURL(text).ok
             /\ NewURL(text).protocol \in {"http:", "https:"}
             /\ NewURL(text).hostname # <<>>
        /\ check.input \in {<<"javascript:", "alert(1)">>, <<"data:", "text/html,...">>,
                            <<"file:", Slash, Slash, Slash, "etc", Slash, "passwd">>}
             => ~check.external.ok
        /\ check.input \in {<<"https:", Slash, Slash, "example.com">>,
                            <<"http:", Slash, Slash, "example.com", Slash, "path">>}
             => check.external.ok

\* a text with a mixed-case javascript: scheme in front of a GitHub address
\* was refused by the pattern test
C22_Witness ==
  \E check \in UrlChecks :
    /\ check.input = <<"JavaScript:", Slash, Slash, "github.com", Slash, "alice", Slash, "wallet">>
    /\ ~check.external.ok
    /\ check.external.stage = "blocked"

\* C23: validateGitHubUrl accepts a text exactly when validateExternalUrl
\* accepts it, its host is github.com or www.github.com and its path has at
\* least two non-empty segments; "https://github.com/onlyowner" passes the
\* safety check and is refused by the path rule.
C23_RepositoryUrlRule ==
  \A check \in UrlChecks :
    LET parsed == NewURL(Trim(check.input))
    IN  /\ check.github.ok <=>
             /\ check.external.ok
             /\ parsed.hostname \in {<<"github.com">>, <<"www.github.com">>}
             /\ Cardinality({k \in 1..Len(parsed.pathname) :
                               /\ parsed.pathname[k] # Slash
                               /\ (k = 1 \/ parsed.pathname[k - 1] = Slash)}) >= 2
        /\ check.input = UrlOnlyOwner =>
             (check.external.ok /\ ~check.github.ok /\ check.github.stage = "path")

\* "https://github.com/onlyowner" was checked: safe, and refused as a
\* repository URL
C23_Witness ==
  \E check \in UrlChecks :
    /\ check.input = UrlOnlyOwner
    /\ check.external.ok
    /\ ~check.github.ok

\* C28: a text that validateGitHubUrl accepts is parsed by parseGitHubUrl,
\* with the first two non-empty path segments as owner and repository name
\* (a trailing ".git" stripped).
C28_ValidatedUrlParses ==
  \A check \in UrlChecks :
    check.github.ok =>
      LET pathParts == Segments(NewURL(Trim(check.input)).pathname)
      IN  /\ check.parsed.ok
          /\ check.parsed.owner = pathParts[1]
          /\ check.parsed.repo = StripGit(pathParts[2])

\* the collection a call would build alone from the files and the responses
\* of its own callbacks
BuiltAlone(c) ==
  [i \in 1..Len(pass[c].tasks) |->
     AggregatorTask(pass[c].tasks[i].file, pass[c].tasks[i].repoRes,
                    pass[c].tasks[i].languagesRes).project]

Numeral(n) ==
  IF n < 10 THEN <<48 + n>>
  ELSE IF n < 100 THEN <<48 + (n \div 10), 48 + (n % 10)>>
  ELSE <<48 + (n \div 1000), 48 + ((n \div 100) % 10), 48 + ((n \div 10) % 10), 48 + (n % 10)>>

\* (31 * hash + charCode) mod 2^32 on the halves of the word
Times31Plus(hash, charCode) ==
  LET lo == (31 * hash[2]) + charCode
  IN  <<((31 * hash[1]) + (lo \div 65536)) % 65536, lo % 65536>>

RECURSIVE Fold31(_, _)
\* the rolling hash of the first n characters
Fold31(str, n) == IF n = 0 THEN <<0, 0>> ELSE Times31Plus(Fold31(str, n - 1), str[n])

\* the magnitude of the word read as a signed 32-bit integer
Magnitude(w) ==
  IF w[1] < 32768 THEN w
  ELSE IF w[2] = 0 THEN <<(65536 - w[1]) % 65536, 0>>
  ELSE <<65535 - w[1], 65536 - w[2]>>

\* C25: the seed read at an instant is the absolute value of the 32-bit
\* rolling hash (hash * 31 + charCode, wrapping) of the text
\* "{year}-{zero-based month}-{day}" of the UTC date, unpadded; for 15
\* January 2024 it is the hash of "2024-0-15", 534400398.
C25_SeedIsDateHash ==
  LET text == Numeral(now.year) \o <<45>> \o Numeral(now.month) \o <<45>> \o Numeral(now.day)
  IN  /\ seedUse.date = <<now.year, now.month, now.day>>
      /\ seedUse.seed = Magnitude(Fold31(text, Len(text)))
      /\ (now.year = 2024 /\ now.month = 0 /\ now.day = 15) =>
           /\ text = <<50, 48, 50, 52, 45, 48, 45, 49, 53>>
           /\ seedUse.seed = <<8154, 19854>>

\* the seed was read on 31 December 2024, a date whose hash is negative
\* before the absolute value: 612418018
C25_Witness ==
  /\ now.year = 2024 /\ now.month = 11 /\ now.day = 31
  /\ seedUse.seed = <<9344, 49634>>
  /\ Fold31(DateString(now), Len(DateString(now)))[1] >= 32768

ShuffleRuns == {i \in 1..Len(seen) : seen[i].kind = "shuffle"}


RECURSIVE Replay(_, _, _)
\* arr after the swaps of draws k..Len(draws), each of positions i and j
Replay(arr, draws, k) ==
  IF k > Len(draws) THEN arr
  ELSE LET i == draws[k].i + 1
           j == draws[k].j + 1
       IN  Replay([p \in 1..Len(arr) |->
                     IF p = i THEN arr[j] ELSE IF p = j THEN arr[i] ELSE arr[p]],
                  draws, k + 1)

\* C26: seededShuffle draws once for each i from length-1 down to 1, each
\* drawn value is an unsigned 32-bit number (so random() is in [0,1)), each
\* j is within 0..i, the result is the input after the swaps of positions i
\* and j in that order, and it is a permutation of the input: same length
\* and every element as often as in the input.
C26_FisherYatesPermutation ==
  \A r \in ShuffleRuns :
    LET run == seen[r]
        n == Len(run.input)
    IN  /\ Len(run.draws) = (IF n = 0 THEN 0 ELSE n - 1)
        /\ \A k \in 1..Len(run.draws) :
             /\ run.draws[k].i = n - k
             /\ run.draws[k].value[1] \in 0..65535
             /\ run.draws[k].value[2] \in 0..65535
             /\ run.draws[k].j \in 0..run.draws[k].i
        /\ run.result = Replay(run.input, run.draws, 1)
        /\ Len(run.result) = n
        /\ \A x \in {"a", "b", "c"} : Count(run.result, x) = Count(run.input, x)

\* an array of four with a repeated element was shuffled into another order,
\* with a draw of j = i and a draw of j < i
C26_Witness ==
  \E r \in ShuffleRuns :
    /\ Len(seen[r].input) = 4
    /\ seen[r].input[1] = seen[r].input[2]
    /\ seen[r].result # seen[r].input
    /\ \E k \in 1..3 : seen[r].draws[k].j = seen[r].draws[k].i
    /\ \E k \in 1..3 : seen[r].draws[k].j < seen[r].draws[k].i

\* C30: seededShuffle and getFeaturedProjects leave their inputs as they
\* were: once getFeaturedProjects has returned, the aggregated collection is
\* still the one getAllProjects returned and the eligible list is still the
\* one the filter produced from it, with the same length, elements and order.
C30_InputsUnchanged ==
  \A c \in workers :
    ReturnedFeatured(c) =>
      LET merged == [i \in 1..Len(pass[c].tasks) |-> pass[c].tasks[i].project]
          eligible == SelectSeq(merged, IsEligible)
      IN  /\ pass[c].left.allProjects = merged
          /\ Len(pass[c].left.eligible) = Len(eligible)
          /\ \A i \in 1..Len(eligible) : pass[c].left.eligible[i] = eligible[i]

\* a run with four eligible projects returned them in another order than the
\* eligible list has, and the eligible list kept its order
C30_Witness ==
  \E c \in workers :
    /\ ReturnedFeatured(c)
    /\ Len(pass[c].left.eligible) = 4
    /\ Len(pass[c].result) = 3
    /\ pass[c].result # SubSeq(pass[c].left.eligible, 1, 3)
    /\ pass[c].left.eligible = Eligible(pass[c].projects)

\* the slugs of the projects getAllProjects holds for the store: those of the
\* records it lists and can read
ListedSlugs ==
  {content[file].slug : file \in {f \in Range(RecordFiles) : content[f].readable}}

\* C29: getProjectBySlug(s) returns a project exactly when the listing of
\* getAllProjects over the same store holds a project whose slug is s, and
\* the project returned has the slug s.
C29_LookupAgreesWithListing ==
  \A c \in Workers :
    ReturnedLookup(c) =>
      /\ (pass[c].result # <<>>) <=> (pass[c].arg \in ListedSlugs)
      /\ pass[c].result # <<>> => pass[c].result[1].slug = pass[c].arg

IsFetching(c) == pass[c].pc = "fetching"

\* the fetchGitHubData call of callback i of call c has not resolved
Unresolved(c, i) == i <= Len(pass[c].tasks) /\ pass[c].tasks[i].state = "inflight"

\* a request of callback i of call c was issued and has no response
Unanswered(c, i) ==
  /\ i <= Len(pass[c].tasks)
  /\ Fetched(pass[c].tasks[i])
  /\ Pending \in {pass[c].tasks[i].repoRes, pass[c].tasks[i].languagesRes}

\* every fetchGitHubData call that call c awaits resolves in the end
EveryFetchResolves(c) == \A i \in 1..MaxFiles : Awaiting(c, i) ~> ~Awaiting(c, i)

\* C27 as stated: if every metadata fetch of a call resolves in the end, the
\* call of getAllProjects returns in the end; if some request of the call
\* stays unanswered for ever, the call never completes.
C27_HungRequestBlocks ==
  \A c \in Workers :
    /\ EveryFetchResolves(c) => (IsFetching(c) ~> ReturnedAll(c))
    /\ \A i \in 1..MaxFiles :
         <>[]Unanswered(c, i) => <>[](pass[c].pc \notin {"returned", "rejected"})

\* C27: if every metadata fetch of a call resolves in the end, the call of
\* getAllProjects returns in the end, or rejects (when a record file is
\* unreadable); if the fetchGitHubData call of some record never resolves,
\* the call never returns.  A request left unanswered does not keep its
\* fetchGitHubData call from resolving when the other request of the call
\* fails with a network error.
C27_HungFetchBlocks ==
  \A c \in Workers :
    /\ EveryFetchResolves(c) =>
         (IsFetching(c) ~> (pass[c].pc \in {"returned", "rejected"}))
    /\ \A i \in 1..MaxFiles : <>[]Unresolved(c, i) => <>[]~ReturnedAll(c)

\* a call of two fetches is under way with one fetch resolved and the other
\* still waiting for both of its responses
C27_Witness ==
  \E c \in Workers :
    /\ IsFetching(c)
    /\ Len(pass[c].tasks) = 2
    /\ pass[c].tasks[1].state = "done"
    /\ Unresolved(c, 2)
    /\ pass[c].tasks[2].repoRes = Pending
    /\ pass[c].tasks[2].languagesRes = Pending

=============================================================================
